---- MODULE Spec2Model ----
(***************************************************************************)
(* A model of sosumi.ai's Markdown renderer (src/src/lib/render.ts).       *)
(*                                                                         *)
(* A JavaScript string is a sequence of tokens.  Every whitespace          *)
(* character (" ", "\n") is a token of its own and no other token begins   *)
(* or ends with whitespace, so trim() and the newline regexes act on the   *)
(* model exactly as on the text.  A JSON object is a record; an optional   *)
(* field that is absent is a field that is not in the record's DOMAIN.     *)
(* An exception thrown by the code is a poison token in the text: the      *)
(* call that meets one rejects instead of returning.                       *)
(***************************************************************************)
EXTENDS Integers, Sequences, FiniteSets, TLC

VARIABLES inputTree, inputUrl, clock, pc, stamp, markdown, result, stack, heap,
          call, appleUrl, requests, response, fetched, toolResult, structured, parser

\* the state of a fetch: the call and its caller, the Apple source URL the
\* caller has made, the upstream requests sent, the upstream's answer, how
\* fetchJSONData has settled and what the MCP handler has answered: the
\* text of its result and, for a search, its structured content; and the
\* SearchResultParser at work
fetchVars == <<call, appleUrl, requests, response, fetched, toolResult, structured, parser>>

\* no fetch is under way
NoFetch ==
  /\ call = [via |-> "none"]
  /\ appleUrl = <<>>
  /\ requests = <<>>
  /\ response = [kind |-> "none"]
  /\ fetched = [state |-> "none"]
  /\ toolResult = <<>>
  /\ structured = <<>>
  /\ parser = <<>>

vars == <<inputTree, inputUrl, clock, pc, stamp, markdown, result, stack, heap, fetchVars>>

(***************************************************************************)
(* Bounds of the model.                                                    *)
(***************************************************************************)
\* the wall clock takes the values 0..MaxClock
MaxClock == 1
\* number of containers (asides, lists) or spans nested beyond the depth limit
ExtraNest == 2

(***************************************************************************)
(* Program constants.                                                      *)
(***************************************************************************)
\* render.ts:232  if (depth > 50)
MaxBlockDepth == 50
\* render.ts:298  if (depth > 20)
MaxInlineDepth == 20
\* render.ts:241  Math.min(item.level || 2, 6)
MaxHeadingLevel == 6
\* render.ts:241  item.level || 2
DefaultHeadingLevel == 2

(***************************************************************************)
(* Strings.                                                                *)
(***************************************************************************)
NL == "\n"
SP == " "
\* what a template literal makes of undefined
UNDEFINED == <<"undefined">>
\* "#".repeat(n) with n < 0 throws a RangeError
RangeError == "<RangeError>"
\* reading a property of undefined throws a TypeError
TypeError == "<TypeError>"

\* U+203A, the separator of breadcrumbs
RightAngleQuote == "<rsaquo>"
\* the backtick, and the fence of three backticks
BackTick == "<backtick>"
Fence == "<fence>"

BlockSentinel == "[Content too deeply nested]"
InlineSentinel == "[Inline content too deeply nested]"

IsWs(t) == t \in {SP, NL, "\t"}

Min(S) == CHOOSE x \in S : \A y \in S : x <= y
Max(S) == CHOOSE x \in S : \A y \in S : x >= y

\* String.prototype.trim
Trim(s) ==
  IF \A i \in 1..Len(s) : IsWs(s[i]) THEN <<>>
  ELSE SubSeq(s,
              CHOOSE i \in 1..Len(s) : ~IsWs(s[i]) /\ \A j \in 1..(i - 1) : IsWs(s[j]),
              CHOOSE i \in 1..Len(s) : ~IsWs(s[i]) /\ \A j \in (i + 1)..Len(s) : IsWs(s[j]))

\* the concatenation of ss[lo..hi], a sequence of strings
RECURSIVE JoinRange(_, _, _)
JoinRange(ss, lo, hi) ==
  IF lo > hi THEN <<>>
  ELSE IF lo = hi THEN ss[lo]
  ELSE LET mid == (lo + hi) \div 2
       IN JoinRange(ss, lo, mid) \o JoinRange(ss, mid + 1, hi)

\* Array.prototype.join("")
Join(ss) == JoinRange(ss, 1, Len(ss))

\* Array.prototype.join(sep)
JoinWith(ss, sep) ==
  Join([i \in 1..Len(ss) |-> IF i = 1 THEN ss[i] ELSE sep \o ss[i]])

\* String.prototype.repeat; a negative count throws
Repeat(t, n) == IF n < 0 THEN <<RangeError>> ELSE [i \in 1..n |-> t]

\* s.replace(/\n/g, "\n> ")
QuoteLines(s) ==
  Join([i \in 1..Len(s) |-> IF s[i] = NL THEN <<NL, ">", SP>> ELSE <<s[i]>>])

\* s.replace(/\n\n$/, "")
StripBlankLine(s) ==
  IF Len(s) >= 2 /\ s[Len(s)] = NL /\ s[Len(s) - 1] = NL
  THEN SubSeq(s, 1, Len(s) - 2)
  ELSE s

IsPrefix(p, s) == Len(p) <= Len(s) /\ SubSeq(s, 1, Len(p)) = p
IsSuffix(p, s) == Len(p) <= Len(s) /\ SubSeq(s, Len(s) - Len(p) + 1, Len(s)) = p
Occurrences(t, s) == Cardinality({i \in 1..Len(s) : s[i] = t})

\* the positions at which p occurs in s
Matches(p, s) == {i \in 1..(Len(s) - Len(p) + 1) : SubSeq(s, i, i + Len(p) - 1) = p}

Has(r, f) == f \in DOMAIN r
\* a string-valued field is truthy when present and not empty
Truthy(r, f) == Has(r, f) /\ r[f] # <<>>
\* `${r.f}`
Str(r, f) == IF Has(r, f) THEN r[f] ELSE UNDEFINED
\* r.f || ""
OrEmpty(r, f) == IF Has(r, f) THEN r[f] ELSE <<>>

(***************************************************************************)
(* mapAsideStyleToCallout: a style is a sequence of characters.            *)
(***************************************************************************)
Chars(word) ==
  CASE word = "warning" -> <<"w", "a", "r", "n", "i", "n", "g">>
    [] word = "important" -> <<"i", "m", "p", "o", "r", "t", "a", "n", "t">>
    [] word = "caution" -> <<"c", "a", "u", "t", "i", "o", "n">>
    [] word = "tip" -> <<"t", "i", "p">>
    [] word = "deprecated" -> <<"d", "e", "p", "r", "e", "c", "a", "t", "e", "d">>
    [] word = "note" -> <<"n", "o", "t", "e">>

Upper ==
  <<"A", "B", "C", "D", "E", "F", "G", "H", "I", "J", "K", "L", "M", "N", "O", "P", "Q", "R", "S", "T", "U", "V", "W", "X", "Y", "Z">>
Lower ==
  <<"a", "b", "c", "d", "e", "f", "g", "h", "i", "j", "k", "l", "m", "n", "o", "p", "q", "r", "s", "t", "u", "v", "w", "x", "y", "z">>

LowerChar(c) ==
  IF \E i \in 1..Len(Upper) : Upper[i] = c
  THEN Lower[CHOOSE i \in 1..Len(Upper) : Upper[i] = c]
  ELSE c

UpperChar(c) ==
  IF \E i \in 1..Len(Lower) : Lower[i] = c
  THEN Upper[CHOOSE i \in 1..Len(Lower) : Lower[i] = c]
  ELSE c

\* String.prototype.toLowerCase
toLowerCase(s) == [i \in 1..Len(s) |-> LowerChar(s[i])]

\* a mapping that matches the style letter for letter
mapAsideStyleToCalloutNoFold(style) ==
  CASE style = Chars("warning") -> "WARNING"
    [] style = Chars("important") -> "IMPORTANT"
    [] style = Chars("caution") -> "CAUTION"
    [] style = Chars("tip") -> "TIP"
    [] style = Chars("deprecated") -> "WARNING"
    [] OTHER -> "NOTE"

\* render.ts:470-485
mapAsideStyleToCallout(style) ==
  LET s == toLowerCase(style)
  IN CASE s = Chars("warning") -> "WARNING"
       [] s = Chars("important") -> "IMPORTANT"
       [] s = Chars("caution") -> "CAUTION"
       [] s = Chars("tip") -> "TIP"
       [] s = Chars("deprecated") -> "WARNING"
       [] OTHER -> "NOTE"

(***************************************************************************)
(* convertIdentifierToURL.  An identifier is a string whose tokens are     *)
(* "doc://", "com.apple.", "/documentation/", "/" and path segments.       *)
(***************************************************************************)
SwiftUIPrefix == <<"doc://", "com.apple.", "SwiftUI", "/documentation/">>
ApplePrefix == <<"doc://", "com.apple.">>
DocumentationPath == <<"/documentation/">>

\* identifier.match(/\/documentation\/(.+)/): the leftmost "/documentation/"
\* that a character other than a line terminator follows; 0 when there is
\* none
DocumentationMatch(identifier) ==
  LET at == {i \in Matches(DocumentationPath, identifier) :
               i < Len(identifier) /\ identifier[i + 1] # NL}
  IN IF at = {} THEN 0 ELSE Min(at)

\* matches[1], what (.+) takes: the characters after position i up to the
\* end of their line
RestOfLine(identifier, i) ==
  LET ends == {j \in (i + 1)..Len(identifier) : identifier[j] = NL}
  IN SubSeq(identifier, i + 1, IF ends = {} THEN Len(identifier) ELSE Min(ends) - 1)

\* a rewriting that takes the domain of any vendor
rewriteIdentifierAnyVendor(identifier) ==
  IF IsPrefix(<<"doc://">>, identifier) /\ DocumentationMatch(identifier) > 0
  THEN DocumentationPath \o RestOfLine(identifier, DocumentationMatch(identifier))
  ELSE identifier

\* the rewriting of an identifier that has no reference URL
rewriteIdentifier(identifier) ==
  IF IsPrefix(SwiftUIPrefix, identifier)
  THEN DocumentationPath \o SubSeq(identifier, Len(SwiftUIPrefix) + 1, Len(identifier))
  ELSE IF IsPrefix(ApplePrefix, identifier) /\ DocumentationMatch(identifier) > 0
  THEN DocumentationPath \o RestOfLine(identifier, DocumentationMatch(identifier))
  ELSE identifier

\* a resolver that follows the identifier a reference entry carries
convertIdentifierToURLFollowing(identifier, references) ==
  IF Has(references, identifier) /\ Truthy(references[identifier], "url")
  THEN references[identifier].url
  ELSE IF Has(references, identifier) /\ Has(references[identifier], "identifier")
          /\ Has(references, references[identifier].identifier)
          /\ Truthy(references[references[identifier].identifier], "url")
  THEN references[references[identifier].identifier].url
  ELSE rewriteIdentifier(identifier)

\* a resolver that rewrites Apple identifiers before it looks at the table
convertIdentifierToURLRewriteFirst(identifier, references) ==
  IF rewriteIdentifier(identifier) # identifier
  THEN rewriteIdentifier(identifier)
  ELSE IF Has(references, identifier) /\ Truthy(references[identifier], "url")
  THEN references[identifier].url
  ELSE identifier

\* render.ts:490-511
convertIdentifierToURL(identifier, references) ==
  IF Has(references, identifier) /\ Truthy(references[identifier], "url")
  THEN references[identifier].url
  ELSE rewriteIdentifier(identifier)

(***************************************************************************)
(* The Inline Walker and the Block Walker.                                 *)
(***************************************************************************)
TypeOf(item) == IF Has(item, "type") THEN item.type ELSE ""

\* a guard that never trips
InlineDepthExceededNever(depth) == FALSE

\* render.ts:298
InlineDepthExceeded(depth) == depth > MaxInlineDepth

\* render.ts:232
BlockDepthExceeded(depth) == depth > MaxBlockDepth

RECURSIVE renderInlineContent(_, _, _)
RECURSIVE renderContentArray(_, _, _)

\* render.ts:309-312
renderReference(item, references) ==
  LET title == IF Truthy(item, "title") THEN item.title ELSE OrEmpty(item, "text")
      url == IF Truthy(item, "identifier")
             THEN convertIdentifierToURL(item.identifier, references)
             ELSE <<>>
  IN <<"[">> \o title \o <<"](">> \o url \o <<")">>

\* render.ts:314, 316: `*${...}*` and `**${...}**` around the rendered children
spanText(marker, inner) == <<marker>> \o inner \o <<marker>>

SpanMarker(item) == IF TypeOf(item) = "emphasis" THEN "*" ELSE "**"

\* an item of inline content whose children the Inline Walker descends into
IsSpan(item) == TypeOf(item) \in {"emphasis", "strong"} /\ Has(item, "inlineContent")

\* render.ts:304-319: one element of the map that makes no recursive call
renderInlineLeaf(item, references) ==
  CASE TypeOf(item) = "text" -> OrEmpty(item, "text")
    [] TypeOf(item) = "codeVoice" -> <<BackTick>> \o Str(item, "code") \o <<BackTick>>
    [] TypeOf(item) = "reference" -> renderReference(item, references)
    [] TypeOf(item) \in {"emphasis", "strong"} -> spanText(SpanMarker(item), <<>>)
    [] OTHER -> OrEmpty(item, "text")

\* render.ts:292-321
renderInlineContent(inlineContent, references, depth) ==
  IF InlineDepthExceeded(depth)
  THEN <<InlineSentinel>>
  ELSE Join([i \in 1..Len(inlineContent) |->
               IF IsSpan(inlineContent[i])
               THEN spanText(SpanMarker(inlineContent[i]),
                             renderInlineContent(inlineContent[i].inlineContent,
                                                 references, depth + 1))
               ELSE renderInlineLeaf(inlineContent[i], references)])

\* render.ts:240-243
renderHeading(item) ==
  LET lv == IF Has(item, "level") /\ item.level # 0
            THEN item.level
            ELSE DefaultHeadingLevel
      level == IF lv < MaxHeadingLevel THEN lv ELSE MaxHeadingLevel
  IN Repeat("#", level) \o <<SP>> \o Str(item, "text") \o <<NL, NL>>

\* render.ts:249-258: item.code is [lines |-> <<..>>] (an array) or [text |-> s]
renderCodeListing(item) ==
  LET code == IF Has(item, "code")
              THEN IF Has(item.code, "lines")
                   THEN JoinWith(item.code.lines, <<NL>>)
                   ELSE item.code.text
              ELSE <<>>
      syntax == IF Truthy(item, "syntax") THEN item.syntax ELSE <<"swift">>
  IN <<Fence>> \o syntax \o <<NL>> \o code \o <<NL, Fence, NL, NL>>

\* render.ts:247: `${text}\n\n`
paragraphText(text) == text \o <<NL, NL>>

\* render.ts:246: the depth the paragraph hands to the Inline Walker is its own
paragraphInlineDepth(depth) == depth

\* a list line that drops its marker when the item is the sentinel
listItemLineBare(marker, itemText) ==
  IF itemText = <<BlockSentinel>>
  THEN itemText
  ELSE marker \o <<SP>> \o StripBlankLine(itemText) \o <<NL>>

\* render.ts:263, 271: `${marker} ${itemText.replace(/\n\n$/, "")}\n`
listItemLine(marker, itemText) ==
  marker \o <<SP>> \o StripBlankLine(itemText) \o <<NL>>

\* "-" or `${index + 1}.`
ListMarker(item, j) ==
  IF TypeOf(item) = "orderedList" THEN <<ToString(j), ".">> ELSE <<"-">>

\* listItem.content || []
ItemContent(listItem) == IF Has(listItem, "content") THEN listItem.content ELSE <<>>

\* render.ts:276-277
asideCallout(item) ==
  mapAsideStyleToCallout(IF Truthy(item, "style") THEN item.style ELSE Chars("note"))

\* render.ts:281-282
asideBlock(item, asideContent) ==
  <<">", SP, "[!", asideCallout(item), "]", NL, ">", SP>>
    \o QuoteLines(Trim(asideContent)) \o <<NL, NL>>

IsList(item) == TypeOf(item) \in {"unorderedList", "orderedList"} /\ Has(item, "items")
IsParagraph(item) == TypeOf(item) = "paragraph" /\ Has(item, "inlineContent")
IsAside(item) == TypeOf(item) = "aside" /\ Has(item, "content")

\* render.ts:239-284: one turn of the loop that makes no recursive call
renderBlockLeaf(item) ==
  CASE TypeOf(item) = "heading" -> renderHeading(item)
    [] TypeOf(item) = "codeListing" -> renderCodeListing(item)
    [] TypeOf(item) = "aside" -> asideBlock(item, <<>>)
    [] OTHER -> <<>>

\* render.ts:226-287
renderContentArray(content, references, depth) ==
  IF BlockDepthExceeded(depth)
  THEN <<BlockSentinel>>
  ELSE Join([i \in 1..Len(content) |->
         LET item == content[i]
         IN CASE IsParagraph(item) ->
                   paragraphText(renderInlineContent(item.inlineContent, references,
                                                     paragraphInlineDepth(depth)))
              [] IsList(item) ->
                   Join([j \in 1..Len(item.items) |->
                           listItemLine(ListMarker(item, j),
                                        renderContentArray(ItemContent(item.items[j]),
                                                           references, depth + 1))])
                     \o <<NL>>
              [] IsAside(item) ->
                   asideBlock(item, renderContentArray(item.content, references, depth + 1))
              [] OTHER -> renderBlockLeaf(item)])

\* render.ts:219-221
renderContent(content, references) == renderContentArray(content, references, 0)

(***************************************************************************)
(* extractTitleFromIdentifier: the last path segment of an identifier is   *)
(* spelled in characters.                                                  *)
(***************************************************************************)
\* [a-z]
LowerLetters == {Lower[i] : i \in 1..Len(Lower)}
\* [A-Z]
UpperLetters == {Upper[i] : i \in 1..Len(Upper)}
Digits == {"0", "1", "2", "3", "4", "5", "6", "7", "8", "9"}
\* \w
WordChars == LowerLetters \cup UpperLetters \cup Digits \cup {"_"}

\* a token that ends with "/"
EndsWithSlash(t) == t \in {"/", "/documentation/", "doc://", "https://"}

\* parts[parts.length - 1] of identifier.split("/")
LastPart(identifier) ==
  LET cuts == {i \in 1..Len(identifier) : EndsWithSlash(identifier[i])}
  IN IF cuts = {} THEN identifier
     ELSE SubSeq(identifier, Max(cuts) + 1, Len(identifier))

\* lastPart.match(/^(.+?)(?:-\w+)?$/)[1]; <<>> when there is no match
MethodSignature(lastPart) ==
  LET cuts == {k \in 1..(Len(lastPart) - 2) :
                 /\ lastPart[k + 1] = "-"
                 /\ \A j \in (k + 2)..Len(lastPart) : lastPart[j] \in WordChars}
  IN IF cuts = {} THEN lastPart ELSE SubSeq(lastPart, 1, Min(cuts))

\* s.replace(/([a-z])([A-Z])/g, "$1 $2")
SplitCamelCase(s) ==
  Join([i \in 1..Len(s) |->
          IF i < Len(s) /\ s[i] \in LowerLetters /\ s[i + 1] \in UpperLetters
          THEN <<s[i], SP>>
          ELSE <<s[i]>>])

\* s.replace(/\s+/g, " ")
CollapseSpaces(s) ==
  Join([i \in 1..Len(s) |->
          IF IsWs(s[i])
          THEN IF i > 1 /\ IsWs(s[i - 1]) THEN <<>> ELSE <<SP>>
          ELSE <<s[i]>>])

\* a heuristic that drops the disambiguation suffix of every segment
extractTitleFromIdentifierUnsuffixed(identifier) ==
  LET methodSignature == MethodSignature(LastPart(identifier))
  IN IF "(" \in {methodSignature[i] : i \in 1..Len(methodSignature)}
        /\ ")" \in {methodSignature[i] : i \in 1..Len(methodSignature)}
     THEN methodSignature
     ELSE Trim(CollapseSpaces(SplitCamelCase(methodSignature)))

\* render.ts:516-537
extractTitleFromIdentifier(identifier) ==
  LET lastPart == LastPart(identifier)
      methodSignature == MethodSignature(lastPart)
  IN IF "(" \in {methodSignature[i] : i \in 1..Len(methodSignature)}
        /\ ")" \in {methodSignature[i] : i \in 1..Len(methodSignature)}
     THEN methodSignature
     ELSE Trim(CollapseSpaces(SplitCamelCase(lastPart)))

(***************************************************************************)
(* Section renderers.                                                      *)
(***************************************************************************)
\* variants?.find((v) => v.identifier === id); <<>> when there is none
FindVariant(variants, id) ==
  LET at == {i \in 1..Len(variants) :
               Has(variants[i], "identifier") /\ variants[i].identifier = id}
  IN IF at = {} THEN <<>> ELSE variants[Min(at)]

\* references?.[id]; <<>> when there is none
FindReference(references, id) == IF Has(references, id) THEN references[id] ELSE <<>>

\* a title that prefers the table entry to the variant
linkTitleReferenceFirst(id, variants, references) ==
  LET info == FindVariant(variants, id)
      reference == FindReference(references, id)
  IN IF Truthy(reference, "title") THEN reference.title
     ELSE IF Truthy(info, "title") THEN info.title
     ELSE extractTitleFromIdentifier(id)

\* info?.title || reference?.title || extractTitleFromIdentifier(id)
linkTitle(id, variants, references) ==
  LET info == FindVariant(variants, id)
      reference == FindReference(references, id)
  IN IF Truthy(info, "title") THEN info.title
     ELSE IF Truthy(reference, "title") THEN reference.title
     ELSE extractTitleFromIdentifier(id)

\* abstract.map((a) => a.text).join("")
abstractText(abstract) ==
  Join([i \in 1..Len(abstract) |-> OrEmpty(abstract[i], "text")])

\* render.ts:341, 385, 458: `- [${title}](${url})`
linkItem(id, variants, references) ==
  <<"-", SP, "[">> \o linkTitle(id, variants, references) \o <<"](">>
    \o convertIdentifierToURL(id, references) \o <<")">>

\* a section that lists every identifier once
renderLinkSectionDistinct(section, variants, references) ==
  IF Truthy(section, "title") /\ Has(section, "identifiers")
  THEN <<"##", SP>> \o section.title \o <<NL, NL>>
         \o Join([i \in 1..Len(section.identifiers) |->
                    IF \E j \in 1..(i - 1) : section.identifiers[j] = section.identifiers[i]
                    THEN <<>>
                    ELSE linkItem(section.identifiers[i], variants, references) \o <<NL>>])
         \o <<NL>>
  ELSE <<>>

\* render.ts:333-345 and 450-462: one section of renderRelationships / renderSeeAlso
renderLinkSection(section, variants, references) ==
  IF Truthy(section, "title") /\ Has(section, "identifiers")
  THEN <<"##", SP>> \o section.title \o <<NL, NL>>
         \o Join([i \in 1..Len(section.identifiers) |->
                    linkItem(section.identifiers[i], variants, references) \o <<NL>>])
         \o <<NL>>
  ELSE <<>>

\* render.ts:326-348
renderRelationships(relationships, variants, references) ==
  Join([i \in 1..Len(relationships) |->
          renderLinkSection(relationships[i], variants, references)])

\* render.ts:443-465
renderSeeAlso(seeAlso, variants, references) ==
  Join([i \in 1..Len(seeAlso) |-> renderLinkSection(seeAlso[i], variants, references)])

\* a topic item without its abstract
renderTopicItemBare(id, variants, references) ==
  linkItem(id, variants, references) \o <<NL>>

\* render.ts:365-387: one identifier of a topic section
renderTopicItem(id, variants, references) ==
  LET info == FindVariant(variants, id)
      reference == FindReference(references, id)
      abstract == IF Has(info, "abstract") THEN abstractText(info.abstract)
                  ELSE IF Has(reference, "abstract") THEN abstractText(reference.abstract)
                  ELSE <<>>
  IN linkItem(id, variants, references)
       \o (IF abstract # <<>> THEN <<SP>> \o abstract ELSE <<>>)
       \o <<NL>>

\* render.ts:353-394
renderTopicSections(topics, variants, references) ==
  Join([i \in 1..Len(topics) |->
          IF Truthy(topics[i], "title")
          THEN <<"##", SP>> \o topics[i].title \o <<NL, NL>>
                 \o (IF Has(topics[i], "identifiers")
                     THEN Join([j \in 1..Len(topics[i].identifiers) |->
                                  renderTopicItem(topics[i].identifiers[j],
                                                  variants, references)])
                            \o <<NL>>
                     ELSE <<>>)
          ELSE <<>>])

\* render.ts:406-438
RECURSIVE renderIndexContentWithIndent(_, _)
renderIndexContentWithIndent(children, headingLevel) ==
  Join([i \in 1..Len(children) |->
          LET child == children[i]
          IN IF TypeOf(child) = "groupMarker"
             THEN (IF i > 1 THEN <<NL>> ELSE <<>>)
                    \o Repeat("#", IF headingLevel < MaxHeadingLevel
                                   THEN headingLevel ELSE MaxHeadingLevel)
                    \o <<SP>> \o Str(child, "title") \o <<NL, NL>>
             ELSE IF Truthy(child, "path") /\ Truthy(child, "title")
             THEN <<"-", SP, "[">> \o child.title \o <<"](">> \o child.path \o <<")">>
                    \o (IF Has(child, "beta") /\ child.beta
                        THEN <<SP, "**Beta**">> ELSE <<>>)
                    \o <<NL>>
                    \o (IF Has(child, "children")
                        THEN <<NL>>
                               \o renderIndexContentWithIndent(child.children,
                                                               headingLevel + 1)
                        ELSE <<>>)
             ELSE <<>>])

\* render.ts:399-401
renderIndexContent(children) == renderIndexContentWithIndent(children, 2)

\* a null element of an array
IsNull(x) == Has(x, "null")

\* render.ts:175-192
renderDeclarations(declarations) ==
  Join([i \in 1..Len(declarations) |->
          IF IsNull(declarations[i]) THEN <<TypeError>>
          ELSE IF Has(declarations[i], "tokens")
          THEN LET tokens == SelectSeq(declarations[i].tokens, LAMBDA t : ~IsNull(t))
                   code == Trim(Join([j \in 1..Len(tokens) |-> OrEmpty(tokens[j], "text")]))
               IN <<Fence, "swift", NL>> \o code \o <<NL, Fence, NL, NL>>
          ELSE <<>>])

\* render.ts:197-214
renderParameters(parameters, references) ==
  IF Len(parameters) = 0 THEN <<>>
  ELSE <<"##", SP, "Parameters", NL, NL>>
         \o Join([i \in 1..Len(parameters) |->
                    <<"**">> \o Str(parameters[i], "name") \o <<"**", NL, NL>>
                      \o (IF Has(parameters[i], "content")
                          THEN renderContentArray(parameters[i].content, references, 0)
                                 \o <<NL, NL>>
                          ELSE <<>>)])


(***************************************************************************)
(* The orchestrator.  A source URL is [origin, segments]: the text of the  *)
(* URL is the origin followed by "/" and a segment, for every segment of   *)
(* its path; a segment is a sequence of characters, and an empty one is    *)
(* the empty part that two adjacent slashes leave.                         *)
(***************************************************************************)
UrlText(url) ==
  <<url.origin>> \o Join([i \in 1..Len(url.segments) |-> <<"/">> \o url.segments[i]])

\* url.pathname.split("/").filter(Boolean)
PathParts(url) == SelectSeq(url.segments, LAMBDA seg : seg # <<>>)

\* breadcrumbs that link the final segment too
generateBreadcrumbsThrough(url) ==
  LET pathParts == PathParts(url)
      framework == pathParts[2]
  IN IF Len(pathParts) < 3 THEN <<>>
     ELSE <<"**Navigation:**", SP, "[", UpperChar(framework[1])>>
            \o SubSeq(framework, 2, Len(framework))
            \o <<"](", "/documentation/">> \o framework \o <<")">>
            \o Join([k \in 1..(Len(pathParts) - 2) |->
                       <<SP, RightAngleQuote, SP, "[">> \o pathParts[k + 2] \o <<"](", "/">>
                         \o JoinWith(SubSeq(pathParts, 1, k + 2), <<"/">>) \o <<")">>])
            \o <<NL, NL>>

\* render.ts:151-170
generateBreadcrumbs(url) ==
  LET pathParts == PathParts(url)
      framework == pathParts[2]
  IN IF Len(pathParts) < 3 THEN <<>>
     ELSE <<"**Navigation:**", SP, "[", UpperChar(framework[1])>>
            \o SubSeq(framework, 2, Len(framework))
            \o <<"](", "/documentation/">> \o framework \o <<")">>
            \o Join([k \in 1..(Len(pathParts) - 3) |->
                       <<SP, RightAngleQuote, SP, "[">> \o pathParts[k + 2] \o <<"](", "/">>
                         \o JoinWith(SubSeq(pathParts, 1, k + 2), <<"/">>) \o <<")">>])
            \o <<NL, NL>>

\* new Date().toISOString() at clock reading now
ISOString(now) == "T" \o ToString(now)

TitleSuffix == <<"|", SP, "Apple", SP, "Developer", SP, "Documentation">>

\* s.replace(pattern, ""): the first occurrence goes
RemoveFirst(pattern, s) ==
  IF Matches(pattern, s) = {} THEN s
  ELSE LET at == Min(Matches(pattern, s))
       IN SubSeq(s, 1, at - 1) \o SubSeq(s, at + Len(pattern), Len(s))

Metadata(jsonData) == IF Has(jsonData, "metadata") THEN jsonData.metadata ELSE <<>>
References(jsonData) == IF Has(jsonData, "references") THEN jsonData.references ELSE <<>>
Variants(jsonData) == IF Has(jsonData, "variants") THEN jsonData.variants ELSE <<>>

\* abstract.filter((item) => item.type === "text").map((item) => item.text).join("")
AbstractOf(jsonData) ==
  LET texts == SelectSeq(jsonData.abstract, LAMBDA item : TypeOf(item) = "text")
  IN Join([i \in 1..Len(texts) |-> OrEmpty(texts[i], "text")])

\* jsonData.interfaceLanguages?.swift?.[0]?.title
IndexTitle(jsonData) ==
  IF Has(jsonData, "interfaceLanguages") /\ Has(jsonData.interfaceLanguages, "swift")
     /\ Len(jsonData.interfaceLanguages.swift) > 0
  THEN OrEmpty(jsonData.interfaceLanguages.swift[1], "title")
  ELSE <<>>

\* a front matter that stamps the source line too
generateFrontMatterFromJSONStamped(jsonData, url, now) ==
  <<"---", NL, "source", ":", SP>> \o UrlText(url) \o <<SP, ISOString(now)>>
    \o <<NL, "timestamp", ":", SP, ISOString(now), NL, "---", NL, NL>>

\* render.ts:119-146
generateFrontMatterFromJSON(jsonData, url, now) ==
  LET title == IF Truthy(Metadata(jsonData), "title")
               THEN <<<<"title", ":", SP>>
                        \o Trim(RemoveFirst(TitleSuffix, Metadata(jsonData).title))>>
               ELSE IF IndexTitle(jsonData) # <<>>
               THEN <<<<"title", ":", SP>> \o IndexTitle(jsonData)>>
               ELSE <<>>
      description == IF Has(jsonData, "abstract") /\ Trim(AbstractOf(jsonData)) # <<>>
                     THEN <<<<"description", ":", SP>> \o Trim(AbstractOf(jsonData))>>
                     ELSE <<>>
      yamlLines == title \o description
                     \o <<<<"source", ":", SP>> \o UrlText(url),
                          <<"timestamp", ":", SP, ISOString(now)>>>>
  IN <<"---", NL>> \o JoinWith(yamlLines, <<NL>>) \o <<NL, "---", NL, NL>>

\* render.ts:35-40
renderPlatforms(platforms) ==
  <<"**Available on:**", SP>>
    \o JoinWith([i \in 1..Len(platforms) |->
                   Str(platforms[i], "name") \o <<SP>> \o Str(platforms[i], "introducedAt")
                     \o <<"+">>
                     \o (IF Has(platforms[i], "beta") /\ platforms[i].beta
                         THEN <<SP, "Beta">> ELSE <<>>)],
                <<",", SP>>)
    \o <<NL, NL>>

\* primaryContentSections.filter((s) => s.kind === kind)
SectionsOfKind(jsonData, kind) ==
  IF Has(jsonData, "primaryContentSections")
  THEN SelectSeq(jsonData.primaryContentSections,
                 LAMBDA sec : Has(sec, "kind") /\ sec.kind = kind)
  ELSE <<>>

\* a footer that is the rule alone
FooterRule == <<NL, NL, "---", NL, NL>>

\* render.ts:109-111
Footer ==
  <<NL, NL, "---", NL, NL,
    "*Extracted by [sosumi.ai](https://sosumi.ai) - Making Apple docs AI-readable.*", NL,
    "*This is unofficial content. All documentation belongs to Apple Inc.*", NL>>

\* the statements of renderFromJSON that append to markdown, in program order
Steps ==
  <<"frontMatter", "breadcrumbs", "roleHeading", "title", "platforms", "abstract",
    "declarations", "parameters", "content", "relationships", "topics", "index",
    "seeAlso">>

\* render.ts:14-103: what the statement named step appends to markdown
Appended(step, doc, url, now) ==
  CASE step = "frontMatter" -> generateFrontMatterFromJSON(doc, url, now)
    [] step = "breadcrumbs" -> generateBreadcrumbs(url)
    [] step = "roleHeading" ->
         IF Truthy(Metadata(doc), "roleHeading")
         THEN <<"**">> \o Metadata(doc).roleHeading \o <<"**", NL, NL>>
         ELSE <<>>
    [] step = "title" ->
         IF Truthy(Metadata(doc), "title")
         THEN <<"#", SP>> \o Metadata(doc).title \o <<NL, NL>>
         ELSE <<>>
    [] step = "platforms" ->
         IF Has(Metadata(doc), "platforms") /\ Len(Metadata(doc).platforms) > 0
         THEN renderPlatforms(Metadata(doc).platforms)
         ELSE <<>>
    [] step = "abstract" ->
         IF Has(doc, "abstract") /\ Trim(AbstractOf(doc)) # <<>>
         THEN <<">", SP>> \o AbstractOf(doc) \o <<NL, NL>>
         ELSE <<>>
    [] step = "declarations" ->
         IF SectionsOfKind(doc, "declarations") # <<>>
            /\ Has(SectionsOfKind(doc, "declarations")[1], "declarations")
         THEN renderDeclarations(SectionsOfKind(doc, "declarations")[1].declarations)
         ELSE <<>>
    [] step = "parameters" ->
         IF SectionsOfKind(doc, "parameters") # <<>>
            /\ Has(SectionsOfKind(doc, "parameters")[1], "parameters")
         THEN renderParameters(SectionsOfKind(doc, "parameters")[1].parameters,
                               References(doc))
         ELSE <<>>
    [] step = "content" ->
         LET contentSections == SectionsOfKind(doc, "content")
         IN Join([i \in 1..Len(contentSections) |->
                    IF Has(contentSections[i], "content")
                    THEN renderContent(contentSections[i].content, References(doc))
                    ELSE <<>>])
    [] step = "relationships" ->
         IF Has(doc, "relationshipsSections")
         THEN renderRelationships(doc.relationshipsSections, Variants(doc), References(doc))
         ELSE <<>>
    [] step = "topics" ->
         IF Has(doc, "topicSections")
         THEN renderTopicSections(doc.topicSections, Variants(doc), References(doc))
         ELSE <<>>
    [] step = "index" ->
         IF Has(doc, "interfaceLanguages") /\ Has(doc.interfaceLanguages, "swift")
         THEN IF Len(doc.interfaceLanguages.swift) = 0
              THEN <<TypeError>>
              ELSE IF Has(doc.interfaceLanguages.swift[1], "children")
              THEN renderIndexContent(doc.interfaceLanguages.swift[1].children)
              ELSE <<>>
         ELSE <<>>
    [] step = "seeAlso" ->
         IF Has(doc, "seeAlsoSections")
         THEN renderSeeAlso(doc.seeAlsoSections, Variants(doc), References(doc))
         ELSE <<>>

\* a statement that throws ends the call: the promise rejects
Throws(text) == \E i \in 1..Len(text) : text[i] \in {RangeError, TypeError}

\* markdown when the statements up to Steps[n] have run
MarkdownAfter(n, doc, url, now) ==
  Join([i \in 1..n |-> Appended(Steps[i], doc, url, now)])

\* render.ts:11-114: the string a call returns when no statement throws
renderFromJSON(doc, url, now) ==
  Trim(MarkdownAfter(Len(Steps), doc, url, now)) \o Footer


(***************************************************************************)
(* Concurrent calls of renderFromJSON on one document tree.  Each call     *)
(* has its own markdown accumulator and runs the statements of             *)
(* renderFromJSON in program order; the statements of different calls      *)
(* interleave, and the clock may advance between any two of them.          *)
(***************************************************************************)
Calls == {1, 2}

\* the characters of a few words
Spell(word) ==
  CASE word = "swiftui" -> <<"s", "w", "i", "f", "t", "u", "i">>
    [] word = "view" -> <<"v", "i", "e", "w">>
    [] word = "documentation" -> <<"documentation">>
    [] word = "body" -> <<"b", "o", "d", "y">>
    [] word = "someProperty" -> <<"s", "o", "m", "e", "P", "r", "o", "p", "e", "r", "t", "y">>
    [] word = "init(exactly:)-63925" ->
         <<"i", "n", "i", "t", "(", "e", "x", "a", "c", "t", "l", "y", ":", ")", "-",
           "6", "3", "9", "2", "5">>

SourceUrls ==
  { [origin |-> "https://test.com", segments |-> <<>>],
    [origin |-> "https://developer.apple.com",
     segments |-> <<Spell("documentation"), Spell("swiftui"), Spell("view"), Spell("body")>>] }

ViewId == <<"doc://", "com.apple.", "SwiftUI", "/documentation/">> \o Spell("swiftui")
            \o <<"/">> \o Spell("view")
PropertyId == <<"doc://", "com.apple.", "documentation", "/documentation/">>
                \o Spell("swiftui") \o <<"/">> \o Spell("someProperty")
InitId == <<"doc://", "org.swift.", "docs", "/">> \o Spell("init(exactly:)-63925")

Paragraph(text) == [type |-> "paragraph", inlineContent |-> <<[type |-> "text", text |-> text]>>]

MetadataParts ==
  { <<>>,
    [metadata |-> [title |-> <<"View", SP>> \o TitleSuffix,
                   roleHeading |-> <<"Protocol">>,
                   platforms |-> <<[name |-> <<"iOS">>, introducedAt |-> <<"13.0">>],
                                   [name |-> <<"macOS">>, introducedAt |-> <<"10.15">>,
                                    beta |-> TRUE]>>],
     abstract |-> <<[type |-> "text", text |-> <<"Bar.">>],
                    [type |-> "reference", identifier |-> ViewId]>>] }

BodyParts ==
  { <<>>,
    [primaryContentSections |-> <<>>],
    [primaryContentSections |->
       <<[kind |-> "content",
          content |-> <<[type |-> "heading", level |-> 3, text |-> <<"Overview">>],
                        Paragraph(<<"Some", SP, "text.">>),
                        [type |-> "aside", style |-> Chars("tip"),
                         content |-> <<Paragraph(<<"Hint">>)>>]>>],
         [kind |-> "declarations",
          declarations |-> <<[tokens |-> <<[text |-> <<"var">>], [null |-> TRUE],
                                           [kind |-> "text"], [text |-> <<SP, "body">>]>>],
                             [other |-> TRUE]>>],
         [kind |-> "parameters",
          parameters |-> <<[name |-> <<"x">>, content |-> <<Paragraph(<<"The", SP, "x.">>)>>]>>]>>],
    [primaryContentSections |->
       <<[kind |-> "content",
          content |-> <<Paragraph(<<"Before">>),
                        [type |-> "heading", level |-> -1, text |-> <<"Bad">>]>>]>>] }

LinkParts ==
  { <<>>,
    [topicSections |-> <<[title |-> <<"Topics">>, identifiers |-> <<ViewId, PropertyId>>]>>,
     seeAlsoSections |-> <<[title |-> <<"See", SP, "Also">>, identifiers |-> <<InitId>>]>>,
     relationshipsSections |-> <<[title |-> <<"Inherited", SP, "By">>,
                                  identifiers |-> <<PropertyId>>]>>,
     references |-> (ViewId :> [title |-> <<"View">>, url |-> <<"/documentation/swiftui/view">>,
                                abstract |-> <<[type |-> "text", text |-> <<"A", SP, "view.">>]>>])] }

IndexParts ==
  { <<>>,
    [interfaceLanguages |-> [swift |-> <<>>]],
    [interfaceLanguages |->
       [swift |-> <<[title |-> <<"SwiftUI">>,
                     children |-> <<[type |-> "groupMarker", title |-> <<"Views">>],
                                    [path |-> <<"/documentation/swiftui/view">>,
                                     title |-> <<"View">>, beta |-> TRUE,
                                     children |-> <<[type |-> "groupMarker",
                                                     title |-> <<"Inner">>]>>]>>]>>]] }

\* the document trees given to the concurrent calls
Documents ==
  {m @@ b @@ i : m \in MetadataParts, b \in BodyParts, i \in IndexParts}
    \cup {m @@ l : m \in MetadataParts, l \in LinkParts}

StepIndex(step) == CHOOSE i \in 1..Len(Steps) : Steps[i] = step

AfterStep(step) ==
  IF StepIndex(step) < Len(Steps) THEN Steps[StepIndex(step) + 1] ELSE "trim"

\* the clock advances
Tick ==
  /\ clock < MaxClock
  /\ clock' = clock + 1
  /\ UNCHANGED <<inputTree, inputUrl, pc, stamp, markdown, result, stack, heap, fetchVars>>

\* every call appends to one module-level buffer
AppendStepShared(c) ==
  /\ pc[c] \in {Steps[i] : i \in 1..Len(Steps)}
  /\ ~Throws(Appended(pc[c], inputTree, inputUrl, clock))
  /\ markdown' = [d \in Calls |-> markdown[1] \o Appended(pc[c], inputTree, inputUrl, clock)]
  /\ stamp' = IF pc[c] = "frontMatter" THEN [stamp EXCEPT ![c] = clock] ELSE stamp
  /\ pc' = [pc EXCEPT ![c] = AfterStep(pc[c])]
  /\ UNCHANGED <<inputTree, inputUrl, clock, result, stack, heap, fetchVars>>

\* render.ts:12-103: call c runs its next statement, which appends to markdown
AppendStep(c) ==
  /\ pc[c] \in {Steps[i] : i \in 1..Len(Steps)}
  /\ ~Throws(Appended(pc[c], inputTree, inputUrl, clock))
  /\ markdown' = [markdown EXCEPT ![c] = @ \o Appended(pc[c], inputTree, inputUrl, clock)]
  /\ stamp' = IF pc[c] = "frontMatter" THEN [stamp EXCEPT ![c] = clock] ELSE stamp
  /\ pc' = [pc EXCEPT ![c] = AfterStep(pc[c])]
  /\ UNCHANGED <<inputTree, inputUrl, clock, result, stack, heap, fetchVars>>

\* render.ts:12-103: the next statement of call c throws, and the call rejects
ThrowStep(c) ==
  /\ pc[c] \in {Steps[i] : i \in 1..Len(Steps)}
  /\ Throws(Appended(pc[c], inputTree, inputUrl, clock))
  /\ markdown' = [markdown EXCEPT ![c] = <<>>]
  /\ pc' = [pc EXCEPT ![c] = "threw"]
  /\ UNCHANGED <<inputTree, inputUrl, clock, stamp, result, stack, heap, fetchVars>>

\* a trim of the leading whitespace only
TrimmedStart(text) ==
  IF \A i \in 1..Len(text) : IsWs(text[i]) THEN <<>>
  ELSE SubSeq(text,
              CHOOSE i \in 1..Len(text) : ~IsWs(text[i]) /\ \A j \in 1..(i - 1) : IsWs(text[j]),
              Len(text))

\* render.ts:106
Trimmed(text) == Trim(text)

TrimStep(c) ==
  /\ pc[c] = "trim"
  /\ markdown' = [markdown EXCEPT ![c] = Trimmed(@)]
  /\ pc' = [pc EXCEPT ![c] = "footer"]
  /\ UNCHANGED <<inputTree, inputUrl, clock, stamp, result, stack, heap, fetchVars>>

\* render.ts:109-113: the footer is appended and the call returns markdown
FooterStep(c) ==
  /\ pc[c] = "footer"
  /\ markdown' = [markdown EXCEPT ![c] = @ \o Footer]
  /\ result' = [result EXCEPT ![c] = markdown[c] \o Footer]
  /\ pc' = [pc EXCEPT ![c] = "returned"]
  /\ UNCHANGED <<inputTree, inputUrl, clock, stamp, stack, heap, fetchVars>>

Init ==
  /\ inputTree \in Documents
  /\ inputUrl \in SourceUrls
  /\ clock = 0
  /\ pc = [c \in Calls |-> "frontMatter"]
  /\ stamp = [c \in Calls |-> 0]
  /\ markdown = [c \in Calls |-> <<>>]
  /\ result = [c \in Calls |-> <<>>]
  /\ stack = <<>>
  /\ heap = <<>>
  /\ NoFetch

Next ==
  \/ Tick
  \/ \E c \in Calls : AppendStep(c)
  \/ \E c \in Calls : ThrowStep(c)
  \/ \E c \in Calls : TrimStep(c)
  \/ \E c \in Calls : FooterStep(c)

Spec == Init /\ [][Next]_vars


(***************************************************************************)
(* The walkers alone: renderContent applied to one content array, followed *)
(* call by call.  Here the arrays of the document are held by reference,   *)
(* as the JavaScript runtime holds them: heap[a] is the array at address   *)
(* a, and a content or inlineContent field holds an address.  The array    *)
(* renderContent is given is at address 1.                                 *)
(***************************************************************************)
Deref(address) == IF address = 0 THEN <<>> ELSE heap[address]

\* listItem.content || []: 0 is the address of a fresh empty array
ItemArray(listItem) == IF Has(listItem, "content") THEN listItem.content ELSE 0

Text(word) == [type |-> "text", text |-> <<word>>]

Before == [type |-> "heading", level |-> 1, text |-> <<"before">>]
After == [type |-> "heading", level |-> 3, text |-> <<"after">>]

\* one container of the given kind around the array at address
Container(kind, address) ==
  CASE kind = "aside" -> [type |-> "aside", content |-> address]
    [] kind = "unorderedList" -> [type |-> "unorderedList", items |-> <<[content |-> address]>>]
    [] kind = "orderedList" ->
         [type |-> "orderedList", items |-> <<[text |-> <<"none">>], [content |-> address]>>]

\* the kind of the container at a level of a chain of containers
KindAt(kind, level) ==
  IF kind = "mixed"
  THEN <<"aside", "unorderedList", "orderedList">>[(level % 3) + 1]
  ELSE kind

\* arrays 1..depth, each holding one container around the next array; with
\* siblings, every container stands between two headings
Containers(kind, depth, siblings) ==
  [a \in 1..depth |->
     IF siblings
     THEN <<Before, Container(KindAt(kind, a), a + 1), After>>
     ELSE <<Container(KindAt(kind, a), a + 1)>>]

\* the arrays of a leaf, after the first base addresses
Leaves(leaf, base) ==
  CASE leaf = "paragraph" ->
         <<<<[type |-> "paragraph", inlineContent |-> base + 2]>>, <<Text("leaf")>>>>
    [] leaf = "heading" -> <<<<[type |-> "heading", text |-> <<"leaf">>]>>>>
    [] leaf = "empty" -> <<<<>>>>

\* the arrays of a paragraph whose text sits in spans nested in each other,
\* between two plain items; kind is emphasis, strong or mixed
SpanParagraph(kind, spans, base) ==
  LET Span(s) == [type |-> IF kind = "mixed"
                           THEN (IF s % 2 = 0 THEN "emphasis" ELSE "strong")
                           ELSE kind,
                  inlineContent |-> base + 2 + s]
      Inner(s) == IF s < spans THEN Span(s + 1) ELSE Text("leaf")
  IN <<<<[type |-> "paragraph", inlineContent |-> base + 2]>>,
       <<Text("first"), Inner(0), [type |-> "codeVoice", code |-> <<"last">>]>>>>
       \o [s \in 1..spans |-> <<Inner(s)>>]

\* nesting depths around the two limits
InlineNestings ==
  {0, 1} \cup {d \in (MaxInlineDepth - 1)..(MaxInlineDepth + ExtraNest) : d >= 0}
BlockNestings ==
  {0, 1} \cup {d \in (MaxInlineDepth - 1)..(MaxInlineDepth + 1) : d >= 0}
    \cup {d \in (MaxBlockDepth - 1)..(MaxBlockDepth + ExtraNest) : d >= 0}

\* containers nested around a leaf, to either side of the block limit
NestedHeaps ==
  {Containers(kind, depth, siblings) \o Leaves(leaf, depth) :
     kind \in {"aside", "unorderedList", "orderedList", "mixed"},
     depth \in BlockNestings,
     leaf \in {"paragraph", "heading", "empty"},
     siblings \in BOOLEAN}

\* spans nested in a paragraph, to either side of the inline limit
SpanHeaps ==
  {Containers(box, depth, FALSE) \o SpanParagraph(kind, spans, depth) :
     box \in {"aside", "unorderedList"}, depth \in {0, 1, 2},
     kind \in {"emphasis", "strong", "mixed"}, spans \in InlineNestings}

AsideStyles ==
  {Chars(w) : w \in {"warning", "important", "caution", "tip", "deprecated", "note"}}
    \cup {<<"W", "a", "r", "n", "i", "n", "g">>, <<"W", "A", "R", "N", "I", "N", "G">>,
          <<"T", "i", "p">>, <<"D", "e", "p", "r", "e", "c", "a", "t", "e", "d">>,
          <<"C", "A", "U", "T", "I", "O", "N">>, <<"I", "m", "p", "o", "r", "t", "a", "n", "t">>,
          <<"u", "n", "k", "n", "o", "w", "n">>, <<"w", "a", "r", "n">>,
          <<"t", "i", "p", "s">>, <<"N", "o", "t", "e">>, <<>>}

\* an aside of each style, alone or inside one container
AsideHeaps ==
  {Containers(kind, depth, FALSE)
     \o <<<<Before, body @@ [type |-> "aside", content |-> depth + 2]>>>>
     \o Leaves("paragraph", depth + 1) :
     kind \in {"aside", "unorderedList"}, depth \in {0, 1},
     body \in {[style |-> st] : st \in AsideStyles} \cup {<<>>}}

WalkHeaps == NestedHeaps \cup SpanHeaps \cup AsideHeaps

WalkTree == [primaryContentSections |-> <<[kind |-> "content", content |-> 1]>>]

ContentOf(tree) == tree.primaryContentSections[1].content

(***************************************************************************)
(* The call stack of the walkers.  A frame is one activation of            *)
(* renderContentArray (fn = "block") or renderInlineContent (fn =          *)
(* "inline"): its content and depth arguments, the index i of the item     *)
(* the loop is at, the index j of the list item a list is at, and its      *)
(* markdown accumulator.                                                   *)
(***************************************************************************)
Frame(fn, content, depth) ==
  [fn |-> fn, content |-> content, depth |-> depth, i |-> 1, j |-> 1, markdown |-> <<>>]

Top == stack[Len(stack)]

\* render.ts:232, 298: the guard at the head of the function
Exceeded(frame) ==
  IF frame.fn = "block" THEN BlockDepthExceeded(frame.depth)
  ELSE InlineDepthExceeded(frame.depth)

\* the frame has nothing left to do but return
Finished(frame) == Exceeded(frame) \/ frame.i > Len(Deref(frame.content))

\* render.ts:234, 286, 300, 320: what the frame returns
Returned(frame) ==
  IF Exceeded(frame)
  THEN IF frame.fn = "block" THEN <<BlockSentinel>> ELSE <<InlineSentinel>>
  ELSE frame.markdown

Item(frame) == Deref(frame.content)[frame.i]

\* the item the loop is at makes a recursive call
Descends(frame) ==
  IF frame.fn = "block"
  THEN \/ IsParagraph(Item(frame))
       \/ IsAside(Item(frame))
       \/ IsList(Item(frame)) /\ frame.j <= Len(Item(frame).items)
  ELSE IsSpan(Item(frame))

\* the frame of the recursive call
Callee(frame) ==
  IF frame.fn = "inline"
  THEN Frame("inline", Item(frame).inlineContent, frame.depth + 1)
  ELSE IF IsParagraph(Item(frame))
  THEN Frame("inline", Item(frame).inlineContent, paragraphInlineDepth(frame.depth))
  ELSE IF IsAside(Item(frame))
  THEN Frame("block", Item(frame).content, frame.depth + 1)
  ELSE Frame("block", ItemArray(Item(frame).items[frame.j]), frame.depth + 1)

\* the caller's frame once the recursive call has returned value
Resumed(frame, value) ==
  IF frame.fn = "inline"
  THEN [frame EXCEPT !.markdown = @ \o spanText(SpanMarker(Item(frame)), value),
                     !.i = @ + 1]
  ELSE IF IsParagraph(Item(frame))
  THEN [frame EXCEPT !.markdown = @ \o paragraphText(value), !.i = @ + 1]
  ELSE IF IsAside(Item(frame))
  THEN [frame EXCEPT !.markdown = @ \o asideBlock(Item(frame), value), !.i = @ + 1]
  ELSE [frame EXCEPT !.markdown = @ \o listItemLine(ListMarker(Item(frame), frame.j), value),
                     !.j = @ + 1]

\* the frame once the item the loop is at, which makes no call, is rendered
Advanced(frame) ==
  IF frame.fn = "inline"
  THEN [frame EXCEPT !.markdown = @ \o renderInlineLeaf(Item(frame), References(inputTree)),
                     !.i = @ + 1]
  ELSE IF IsList(Item(frame))
  THEN [frame EXCEPT !.markdown = @ \o <<NL>>, !.i = @ + 1, !.j = 1]
  ELSE [frame EXCEPT !.markdown = @ \o renderBlockLeaf(Item(frame)), !.i = @ + 1]

\* render.ts:219-221: renderContent calls renderContentArray at depth 0
WalkStart ==
  /\ pc[1] = "content"
  /\ stack = <<>>
  /\ stack' = <<Frame("block", ContentOf(inputTree), 0)>>
  /\ pc' = [pc EXCEPT ![1] = "walking"]
  /\ UNCHANGED <<inputTree, inputUrl, clock, stamp, markdown, result, heap, fetchVars>>

\* render.ts:246, 262, 270, 279, 314, 316: a recursive call
WalkCall ==
  /\ stack # <<>>
  /\ ~Finished(Top)
  /\ Descends(Top)
  /\ stack' = Append(stack, Callee(Top))
  /\ UNCHANGED <<inputTree, inputUrl, clock, pc, stamp, markdown, result, heap, fetchVars>>

\* one item rendered without a call, or the blank line that ends a list
WalkEmit ==
  /\ stack # <<>>
  /\ ~Finished(Top)
  /\ ~Descends(Top)
  /\ stack' = [stack EXCEPT ![Len(stack)] = Advanced(Top)]
  /\ UNCHANGED <<inputTree, inputUrl, clock, pc, stamp, markdown, result, heap, fetchVars>>

\* a recursive call returns to its caller
WalkReturn ==
  /\ Len(stack) > 1
  /\ Finished(Top)
  /\ stack' = [SubSeq(stack, 1, Len(stack) - 1)
                 EXCEPT ![Len(stack) - 1] = Resumed(@, Returned(Top))]
  /\ UNCHANGED <<inputTree, inputUrl, clock, pc, stamp, markdown, result, heap, fetchVars>>

\* the outermost call returns
WalkFinish ==
  /\ Len(stack) = 1
  /\ Finished(Top)
  /\ result' = [result EXCEPT ![1] = Returned(Top)]
  /\ stack' = <<>>
  /\ pc' = [pc EXCEPT ![1] = "returned"]
  /\ UNCHANGED <<inputTree, inputUrl, clock, stamp, markdown, heap, fetchVars>>

InitWalk ==
  /\ inputTree = WalkTree
  /\ heap \in WalkHeaps
  /\ NoFetch
  /\ inputUrl = [origin |-> "https://test.com", segments |-> <<>>]
  /\ clock = 0
  /\ pc = [c \in Calls |-> "content"]
  /\ stamp = [c \in Calls |-> 0]
  /\ markdown = [c \in Calls |-> <<>>]
  /\ result = [c \in Calls |-> <<>>]
  /\ stack = <<>>

NextWalk == WalkStart \/ WalkCall \/ WalkEmit \/ WalkReturn \/ WalkFinish

SpecWalk == InitWalk /\ [][NextWalk]_vars


(***************************************************************************)
(* Calls of renderFromJSON on documents whose reference table is cyclic:   *)
(* the entry of the identifier the document links to names a second        *)
(* entry, which names the first, and its abstract refers to itself.        *)
(***************************************************************************)
PlainId == <<"plain-identifier">>
OtherId == <<"doc://", "com.apple.", "documentation", "/documentation/">> \o Spell("body")

LinkedIds == {ViewId, PropertyId, InitId, PlainId}

\* a reference URL that is absent, empty, relative or absolute
EntryUrls ==
  {<<>>, [url |-> <<>>], [url |-> <<"/elsewhere">>], [url |-> <<"https://example.com/page">>]}

ResolveDocument(id, entryUrl) ==
  [metadata |-> [title |-> <<"Cycle">>],
   primaryContentSections |->
     <<[kind |-> "content",
        content |-> <<[type |-> "paragraph",
                       inlineContent |-> <<[type |-> "reference", identifier |-> id,
                                            title |-> <<"Inline">>]>>]>>]>>,
   topicSections |-> <<[title |-> <<"Topics">>, identifiers |-> <<id>>]>>,
   seeAlsoSections |-> <<[title |-> <<"See", SP, "Also">>, identifiers |-> <<id>>]>>,
   relationshipsSections |-> <<[title |-> <<"Conforms", SP, "To">>, identifiers |-> <<id>>]>>,
   references |->
     (id :> (entryUrl @@ [title |-> <<"Entry">>, identifier |-> OtherId,
                          abstract |-> <<[type |-> "text", text |-> <<"See", SP>>],
                                         [type |-> "reference", identifier |-> id,
                                          title |-> <<"Self">>]>>]))
     @@ (OtherId :> [title |-> <<"Other">>, url |-> <<"/other">>, identifier |-> id,
                     abstract |-> <<[type |-> "reference", identifier |-> id]>>])]

ResolveDocuments ==
  {ResolveDocument(id, entryUrl) : id \in LinkedIds, entryUrl \in EntryUrls}
    \cup {[interfaceLanguages |-> [swift |-> <<>>]]}

InitResolve ==
  /\ inputTree \in ResolveDocuments
  /\ inputUrl = [origin |-> "https://test.com", segments |-> <<>>]
  /\ clock = 0
  /\ pc = [c \in Calls |-> "frontMatter"]
  /\ stamp = [c \in Calls |-> 0]
  /\ markdown = [c \in Calls |-> <<>>]
  /\ result = [c \in Calls |-> <<>>]
  /\ stack = <<>>
  /\ heap = <<>>
  /\ NoFetch

\* where a call can be
Positions == {Steps[i] : i \in 1..Len(Steps)} \cup {"trim", "footer", "returned", "threw"}

\* a call that has not come to its end moves on
Advance ==
  \E c \in Calls : \E at \in Positions :
    pc[c] \notin {"returned", "threw"} /\ at # pc[c] /\ pc' = [pc EXCEPT ![c] = at]

\* renderFromJSON has no await: a call that has started runs to its end
SpecResolve == InitResolve /\ [][Next]_vars /\ WF_pc(Advance)


(***************************************************************************)
(* Properties of renderFromJSON, checked under Spec.                       *)
(***************************************************************************)
Done(c) == pc[c] \in {"returned", "threw"}

\* C1: renderFromJSON never throws: no call ever rejects, whatever optional
\* fields of the document are absent, empty or malformed.
C1_NeverThrows == \A c \in Calls : pc[c] # "threw"

\* the text a returned string carries before its footer
BeforeFooter(text) == SubSeq(text, 1, Len(text) - Len(Footer))

\* C2: every returned string begins with the front matter block, "---\n"
\* through "\n---\n\n", and ends with the footer; what precedes the footer is
\* trimmed, and the footer's two lines occur once.
C2_FrontMatterAndFooter ==
  \A c \in Calls :
    pc[c] = "returned" =>
      LET frontMatter == generateFrontMatterFromJSON(inputTree, inputUrl, stamp[c])
      IN /\ IsPrefix(<<"---", NL>>, frontMatter)
         /\ IsSuffix(<<NL, "---", NL, NL>>, frontMatter)
         /\ IsPrefix(frontMatter, result[c])
         /\ IsSuffix(Footer, result[c])
         /\ BeforeFooter(result[c]) # <<>>
         /\ Trim(BeforeFooter(result[c])) = BeforeFooter(result[c])
         /\ \A i \in 1..Len(Footer) :
              ~IsWs(Footer[i]) /\ Footer[i] # "---" => Occurrences(Footer[i], result[c]) = 1

\* a call has returned a document with a body whose last section ends in blank lines
C2_Witness ==
  \E c \in Calls :
    /\ pc[c] = "returned"
    /\ Has(inputTree, "topicSections")
    /\ Has(inputTree, "metadata")

\* the place of the value of the front matter's timestamp line
TimestampAt(text) == Min(Matches(<<"timestamp", ":", SP>>, text)) + 3

\* the text with the value of its timestamp line blanked
Masked(text) == [text EXCEPT ![TimestampAt(text)] = "<timestamp>"]

\* C7 as stated: two calls with the same tree and the same source URL return
\* the same string.
C7_Deterministic ==
  (pc[1] = "returned" /\ pc[2] = "returned") => result[1] = result[2]

\* C7: two calls with the same tree and the same source URL return strings
\* that differ at most in the value of the front matter's timestamp line,
\* and that are the same when the clock reads the same at both calls.
C7_DeterministicButTimestamp ==
  (pc[1] = "returned" /\ pc[2] = "returned") =>
    /\ Masked(result[1]) = Masked(result[2])
    /\ stamp[1] = stamp[2] => result[1] = result[2]

\* both calls have returned, and the clock advanced between their front matters
C7_Witness ==
  /\ pc[1] = "returned"
  /\ pc[2] = "returned"
  /\ stamp[1] # stamp[2]
  /\ result[1] # result[2]

\* C8: a call writes neither the tree nor the URL it is given, a step of one
\* call leaves the other call's accumulator and result alone, and whatever
\* the interleaving each call returns what it returns when run alone.
C8_Stateless ==
  /\ [][/\ inputTree' = inputTree
        /\ inputUrl' = inputUrl
        /\ \A c \in Calls :
             pc'[c] = pc[c] => markdown'[c] = markdown[c] /\ result'[c] = result[c]]_vars
  /\ [](\A c \in Calls :
          pc[c] = "returned" => result[c] = renderFromJSON(inputTree, inputUrl, stamp[c]))

\* one call has returned while the other is in the middle of its statements
C8_Witness ==
  \E c, d \in Calls :
    /\ pc[c] = "returned"
    /\ pc[d] \in {"content", "topics"}
    /\ markdown[d] # <<>>
    /\ Has(inputTree, "references")


(***************************************************************************)
(* Properties of the Reference Resolver, checked under SpecResolve.        *)
(***************************************************************************)
\* the identifiers the link sections of a document name
NamedIn(doc, sections) ==
  IF Has(doc, sections)
  THEN UNION {{doc[sections][s].identifiers[i] : i \in 1..Len(doc[sections][s].identifiers)} :
                s \in 1..Len(doc[sections])}
  ELSE {}

Named(doc) ==
  NamedIn(doc, "topicSections") \cup NamedIn(doc, "seeAlsoSections")
    \cup NamedIn(doc, "relationshipsSections")

\* a table entry cut down to its url, its title and the text of its abstract
ShallowEntry(entry) ==
  [f \in DOMAIN entry \cap {"url", "title", "abstract"} |->
     IF f = "abstract"
     THEN [i \in 1..Len(entry.abstract) |->
             [g \in DOMAIN entry.abstract[i] \cap {"text"} |-> entry.abstract[i][g]]]
     ELSE entry[f]]

\* the document with a table of nothing but the cut-down entries of the
\* identifiers it names
Shallow(doc) ==
  [doc EXCEPT !.references = [id \in DOMAIN doc.references \cap Named(doc) |->
                                ShallowEntry(doc.references[id])]]

\* the place of a statement in the program order of renderFromJSON
Rank(at) ==
  CASE at \in {Steps[i] : i \in 1..Len(Steps)} -> StepIndex(at)
    [] at = "trim" -> Len(Steps) + 1
    [] at = "footer" -> Len(Steps) + 2
    [] OTHER -> Len(Steps) + 3

\* C3: every call comes to an end, no call goes back to a statement it has
\* run, and what a call returns for a document whose table entries name
\* each other and themselves is what it returns when every entry is cut
\* down to its own url, title and abstract text.
C3_TerminatesOnCycles ==
  /\ <>(\A c \in Calls : Done(c))
  /\ [][\A c \in Calls : pc'[c] # pc[c] => Rank(pc'[c]) > Rank(pc[c])]_vars
  /\ [](\A c \in Calls :
          pc[c] = "returned" /\ Has(inputTree, "references") =>
            result[c] = renderFromJSON(Shallow(inputTree), inputUrl, stamp[c]))

\* the identifier a document of ResolveDocuments links to
LinkedId(doc) == doc.topicSections[1].identifiers[1]

\* a call has returned for a document whose entry names a second entry that
\* names the first, and whose abstract refers to the entry itself
C3_Witness ==
  \E c \in Calls :
    /\ pc[c] = "returned"
    /\ Has(inputTree, "references")
    /\ LET refs == inputTree.references
           id == LinkedId(inputTree)
       IN /\ refs[id].identifier # id
          /\ refs[refs[id].identifier].identifier = id
          /\ \E i \in 1..Len(refs[id].abstract) :
               Has(refs[id].abstract[i], "identifier")
                 /\ refs[id].abstract[i].identifier = id
          /\ ~Has(refs[id], "url")
    /\ Shallow(inputTree) # inputTree

\* the link targets of a text: what stands between "](" and the next ")"
LinksTo(target, text) == Matches(<<"](">> \o target \o <<")">>, text)

\* C9 as stated: whenever the entry of an identifier has a url, every link
\* rendered for the identifier (inline, topic, see-also, relationship) has
\* exactly that url as its target.
C9_UrlVerbatimWhenPresent ==
  \A c \in Calls :
    pc[c] = "returned" /\ Has(inputTree, "references")
      /\ Has(inputTree.references[LinkedId(inputTree)], "url") =>
        /\ Cardinality(LinksTo(inputTree.references[LinkedId(inputTree)].url, result[c])) = 4
        /\ Occurrences("](", result[c]) = 4

\* C9: whenever the entry of an identifier has a url that is not the empty
\* string, every link rendered for the identifier (inline, topic, see-also,
\* relationship) has exactly that url as its target, whatever the form of
\* the identifier; with an empty url the identifier is rewritten as if the
\* entry had none.
C9_UrlVerbatimWhenNotEmpty ==
  \A c \in Calls :
    pc[c] = "returned" /\ Has(inputTree, "references") =>
      LET id == LinkedId(inputTree)
          entry == inputTree.references[id]
          target == IF Has(entry, "url") /\ entry.url # <<>>
                    THEN entry.url
                    ELSE rewriteIdentifier(id)
      IN /\ Cardinality(LinksTo(target, result[c])) = 4
         /\ Occurrences("](", result[c]) = 4

\* a call has returned for an identifier the resolver would rewrite, whose
\* entry has a url that is unrelated to the identifier
C9_Witness ==
  \E c \in Calls :
    /\ pc[c] = "returned"
    /\ Has(inputTree, "references")
    /\ LinkedId(inputTree) = ViewId
    /\ rewriteIdentifier(ViewId) # ViewId
    /\ Has(inputTree.references[ViewId], "url")
    /\ inputTree.references[ViewId].url = <<"https://example.com/page">>
    /\ LinksTo(<<"https://example.com/page">>, result[c]) # {}


(***************************************************************************)
(* Properties of the walkers, checked under SpecWalk.  The documents of    *)
(* WalkHeaps are chains: the array at address a lies inside a - 1          *)
(* containers or spans, and no array holds two of them.                    *)
(***************************************************************************)
ItemsAt(a) == {heap[a][i] : i \in 1..Len(heap[a])}

Items == UNION {ItemsAt(a) : a \in DOMAIN heap}

\* the number of asides and lists nested in each other
Boxes ==
  Cardinality({a \in DOMAIN heap : \E item \in ItemsAt(a) : IsAside(item) \/ IsList(item)})

\* the number of spans nested in each other
SpanDepth == Cardinality({a \in DOMAIN heap : \E item \in ItemsAt(a) : IsSpan(item)})

\* the array renderContent is given holds a paragraph
TopLevelParagraph == \E item \in ItemsAt(1) : IsParagraph(item)

\* some block or span of the document carries the text "leaf"
HasLeaf == \E item \in Items : Has(item, "text") /\ item.text = <<"leaf">>

\* the calls the array inside 50 containers makes: one for an aside, one
\* for each item of a list
CallsBeyondLimit ==
  LET box == CHOOSE item \in ItemsAt(MaxBlockDepth + 1) : IsAside(item) \/ IsList(item)
  IN IF IsList(box) THEN Len(box.items) ELSE 1

\* C4: renderContentArray is never entered with depth > 51; content inside
\* at most 50 containers is rendered normally, with no sentinel in its
\* place; each array inside more than 50 is replaced by the block sentinel.
C4_BlockDepthBounded ==
  /\ \A k \in 1..Len(stack) :
       stack[k].fn = "block" => stack[k].depth <= MaxBlockDepth + 1
  /\ pc[1] = "returned" /\ SpanDepth = 0 =>
       IF Boxes <= MaxBlockDepth
       THEN /\ Occurrences(BlockSentinel, result[1]) = 0
            /\ Occurrences(InlineSentinel, result[1]) = 0
            /\ HasLeaf => Occurrences("leaf", result[1]) = 1
       ELSE /\ Occurrences(BlockSentinel, result[1]) = CallsBeyondLimit
            /\ Occurrences("leaf", result[1]) = 0

\* C5: a call of renderInlineContent at depth > 20 makes no call and emits
\* nothing of its own, so at most 22 calls of it are ever active; in a
\* top-level paragraph, spans nested at most 20 deep are rendered in full,
\* each with its two markers, and deeper nesting leaves the 21 outer spans
\* around the one inline sentinel.
C5_InlineDepthBounded ==
  /\ \A k \in 1..Len(stack) :
       stack[k].fn = "inline" /\ stack[k].depth > MaxInlineDepth =>
         k = Len(stack) /\ stack[k].markdown = <<>>
  /\ Cardinality({k \in 1..Len(stack) : stack[k].fn = "inline"}) <= MaxInlineDepth + 2
  /\ pc[1] = "returned" /\ TopLevelParagraph =>
       IF SpanDepth <= MaxInlineDepth
       THEN /\ Occurrences(InlineSentinel, result[1]) = 0
            /\ Occurrences("leaf", result[1]) = 1
            /\ Occurrences("*", result[1]) + Occurrences("**", result[1]) = 2 * SpanDepth
       ELSE /\ Occurrences(InlineSentinel, result[1]) = 1
            /\ Occurrences("leaf", result[1]) = 0
            /\ Occurrences("*", result[1]) + Occurrences("**", result[1])
                 = 2 * (MaxInlineDepth + 1)

\* a top-level paragraph with spans nested one deeper than the limit has
\* been rendered
C5_Witness ==
  /\ pc[1] = "returned"
  /\ TopLevelParagraph
  /\ SpanDepth = MaxInlineDepth + 1
  /\ Occurrences(InlineSentinel, result[1]) = 1
  /\ Occurrences("first", result[1]) = 1

\* what a caller appends when the call it made for item returned a sentinel
AroundSentinel(caller) ==
  LET item == Item(caller)
  IN IF caller.fn = "inline"
     THEN IF item.type = "emphasis"
          THEN <<"*", InlineSentinel, "*">>
          ELSE <<"**", InlineSentinel, "**">>
     ELSE IF item.type = "paragraph"
     THEN <<InlineSentinel, NL, NL>>
     ELSE IF item.type = "aside"
     THEN <<">", SP, "[!", "NOTE", "]", NL, ">", SP, BlockSentinel, NL, NL>>
     ELSE IF item.type = "unorderedList"
     THEN <<"-", SP, BlockSentinel, NL>>
     ELSE <<ToString(caller.j), ".", SP, BlockSentinel, NL>>

\* the places of a token in a text
Places(t, text) == {i \in 1..Len(text) : text[i] = t}

\* C6: when a call returns a sentinel, its caller keeps the text it had,
\* appends the sentinel inside the markers of the enclosing container or
\* span, and goes on with the next sibling, and the callers below are
\* untouched; in the returned text, the siblings before and after every
\* container the walk reached are all there, to either side of the sentinel.
C6_NothingElseLost ==
  /\ [][(Len(stack) > 1 /\ Len(stack') = Len(stack) - 1 /\ Exceeded(Top)) =>
          LET n == Len(stack) - 1
          IN /\ SubSeq(stack', 1, n - 1) = SubSeq(stack, 1, n - 1)
             /\ stack'[n].markdown = stack[n].markdown \o AroundSentinel(stack[n])
             /\ stack'[n].content = stack[n].content
             /\ stack'[n].i + stack'[n].j = stack[n].i + stack[n].j + 1]_vars
  /\ [](pc[1] = "returned" =>
          /\ \A word \in {"before", "after"} :
               Occurrences(word, result[1])
                 = Cardinality({a \in DOMAIN heap :
                                  /\ a <= MaxBlockDepth + 1
                                  /\ \E item \in ItemsAt(a) :
                                       Has(item, "text") /\ item.text = <<word>>})
          /\ \A s \in Places(BlockSentinel, result[1]) \cup Places(InlineSentinel, result[1]) :
               /\ \A b \in Places("before", result[1]) \cup Places("first", result[1]) : b < s
               /\ \A a \in Places("after", result[1]) \cup Places("last", result[1]) : s < a
          /\ \A word \in {"first", "last"} :
               (\E item \in Items : \/ Has(item, "text") /\ item.text = <<word>>
                                    \/ Has(item, "code") /\ item.code = <<word>>)
                 => Occurrences(word, result[1]) = 1)

\* containers with siblings, nested deeper than the limit, have been
\* rendered: the sentinel stands among the siblings
C6_Witness ==
  /\ pc[1] = "returned"
  /\ Boxes > MaxBlockDepth
  /\ Occurrences(BlockSentinel, result[1]) = 1
  /\ Occurrences("before", result[1]) = MaxBlockDepth + 1
  /\ Occurrences("after", result[1]) = MaxBlockDepth + 1

\* the callout headers of a text
Callouts(text) == {text[k + 1] : k \in Places("[!", text)}

Asides == {item \in Items : TypeOf(item) = "aside"}

\* the style is the word, letter for letter
IsWord(style, word) == style = Chars(word)

\* the style is the word in any mix of upper and lower case
IsWordAnyCase(style, word) ==
  /\ Len(style) = Len(Chars(word))
  /\ \A i \in 1..Len(style) : style[i] \in {Chars(word)[i], UpperChar(Chars(word)[i])}

\* C10 as stated: warning and deprecated map to WARNING, important to
\* IMPORTANT, caution to CAUTION, tip to TIP, every other style and an
\* absent style to NOTE, in the header of every rendered aside.
C10_AsideMappingExact ==
  pc[1] = "returned" /\ Boxes <= MaxBlockDepth =>
    Callouts(result[1])
      = {IF ~Truthy(item, "style") THEN "NOTE"
         ELSE CASE IsWord(item.style, "warning") \/ IsWord(item.style, "deprecated") -> "WARNING"
                [] IsWord(item.style, "important") -> "IMPORTANT"
                [] IsWord(item.style, "caution") -> "CAUTION"
                [] IsWord(item.style, "tip") -> "TIP"
                [] OTHER -> "NOTE" : item \in Asides}

\* C10: the five style words are matched whatever the case of their
\* letters: warning and deprecated map to WARNING, important to IMPORTANT,
\* caution to CAUTION, tip to TIP, every other style and an absent or empty
\* style to NOTE, in the header of every rendered aside.
C10_AsideMappingAnyCase ==
  pc[1] = "returned" /\ Boxes <= MaxBlockDepth =>
    /\ Callouts(result[1]) \subseteq {"WARNING", "IMPORTANT", "CAUTION", "TIP", "NOTE"}
    /\ Callouts(result[1])
         = {IF ~Truthy(item, "style") THEN "NOTE"
            ELSE CASE IsWordAnyCase(item.style, "warning")
                        \/ IsWordAnyCase(item.style, "deprecated") -> "WARNING"
                   [] IsWordAnyCase(item.style, "important") -> "IMPORTANT"
                   [] IsWordAnyCase(item.style, "caution") -> "CAUTION"
                   [] IsWordAnyCase(item.style, "tip") -> "TIP"
                   [] OTHER -> "NOTE" : item \in Asides}

\* an aside whose style is spelt with a capital has been rendered
C10_Witness ==
  /\ pc[1] = "returned"
  /\ \E item \in Asides : Has(item, "style") /\ item.style = <<"W", "a", "r", "n", "i", "n", "g">>
  /\ "WARNING" \in Callouts(result[1])


(***************************************************************************)
(* Calls of renderFromJSON on documents whose topic, see-also and          *)
(* relationship sections list identifiers of the form doc://test/<segment>:*)
(* a segment is spelled in characters, and the identifiers have a table    *)
(* entry or a variant, with or without a title, or neither.                *)
(***************************************************************************)
TitlePrefix == <<"doc://", "test", "/">>

TitleSegments ==
  { Spell("init(exactly:)-63925"),
    <<"i", "n", "i", "t", "(", ")">>,
    Spell("someProperty"),
    <<"X", "M", "L", "H", "t", "t", "p", "R", "e", "q", "u", "e", "s", "t">>,
    <<"m", "y", "V", "i", "e", "w", "-", "a", "B", "1">>,
    <<"f", "(", "x", ")", "-", "a", "-", "b">>,
    <<"g", "(", "a", ":", ")", "-", "b", ".", "c">>,
    <<"a", "(", "B">>,
    <<")", "(">>,
    <<"-", "a", "b">>,
    <<"v", "-">>,
    <<>> }

\* the identifier lists of the sections: one identifier, or several with
\* one of them twice
IdentifierLists ==
  {<<TitlePrefix \o seg>> : seg \in TitleSegments}
    \cup { <<>>,
           <<ViewId, TitlePrefix \o Spell("someProperty"), ViewId>>,
           <<InitId, InitId>>,
           <<PropertyId, InitId, ViewId, PlainId>> }

\* what the document knows of the identifiers it lists
TitleSources ==
  {"none", "entry", "emptyTitle", "variant", "referenceTitle", "variantTitle",
   "both", "emptyVariant"}

TitleOf(id) == <<"Title", SP, "of", SP>> \o id

LinkDocument(ids, source) ==
  LET listed == {ids[i] : i \in 1..Len(ids)}
      known == {ids[i] : i \in 1..Len(ids) - 1}
      about == [abstract |-> <<[type |-> "text", text |-> <<"About.">>]>>]
      variantOf(id) ==
        CASE source = "variant" -> [identifier |-> id] @@ about
          [] source = "both" ->
               [identifier |-> id, title |-> <<"Variant", SP>> \o TitleOf(id),
                abstract |-> <<[type |-> "text", text |-> <<"Variant", SP, "about.">>]>>]
          [] source = "emptyVariant" -> [identifier |-> id, title |-> <<>>, abstract |-> <<>>]
          [] OTHER -> [identifier |-> id, title |-> <<"Variant", SP>> \o TitleOf(id)]
  IN [topicSections |-> <<[title |-> <<"Topics">>, identifiers |-> ids]>>,
      seeAlsoSections |-> <<[title |-> <<"See", SP, "Also">>, identifiers |-> ids]>>,
      relationshipsSections |-> <<[title |-> <<"Inherited", SP, "By">>, identifiers |-> ids]>>]
     @@ (CASE source = "none" -> <<>>
           [] source = "entry" -> [references |-> [id \in listed |-> about]]
           [] source = "emptyTitle" -> [references |-> [id \in listed |-> [title |-> <<>>]]]
           [] source = "referenceTitle" ->
                [references |-> [id \in known |-> [title |-> TitleOf(id)] @@ about]]
           [] source \in {"variant", "variantTitle"} ->
                [references |-> [id \in listed |-> [title |-> TitleOf(id)]],
                 variants |-> [i \in 1..Len(ids) |-> variantOf(ids[i])]]
           [] source \in {"both", "emptyVariant"} ->
                [references |-> [id \in listed |-> [title |-> TitleOf(id)] @@ about],
                 variants |-> [i \in 1..Len(ids) |-> variantOf(ids[i])]])

LinkDocuments ==
  {LinkDocument(ids, source) :
     ids \in IdentifierLists, source \in {"none", "entry", "emptyTitle"}}
    \cup {LinkDocument(ids, source) :
            ids \in {<<TitlePrefix \o Spell("someProperty")>>,
                     <<ViewId, TitlePrefix \o Spell("someProperty"), ViewId>>,
                     <<PropertyId, InitId, ViewId, PlainId>>},
            source \in TitleSources}
    \cup {[interfaceLanguages |-> [swift |-> <<>>]]}

InitLinks ==
  /\ inputTree \in LinkDocuments
  /\ inputUrl = [origin |-> "https://test.com", segments |-> <<>>]
  /\ clock = 0
  /\ pc = [c \in Calls |-> "frontMatter"]
  /\ stamp = [c \in Calls |-> 0]
  /\ markdown = [c \in Calls |-> <<>>]
  /\ result = [c \in Calls |-> <<>>]
  /\ stack = <<>>
  /\ heap = <<>>
  /\ NoFetch

SpecLinks == InitLinks /\ [][Next]_vars


(***************************************************************************)
(* Properties of the link sections, checked under SpecLinks.               *)
(***************************************************************************)
\* the lines of a text: what stands between its line breaks
Lines(text) ==
  LET breaks == {i \in 1..Len(text) : text[i] = NL}
      Break(k) == IF k = 0 THEN 0
                  ELSE IF k > Cardinality(breaks) THEN Len(text) + 1
                  ELSE CHOOSE i \in breaks : Cardinality({j \in breaks : j <= i}) = k
  IN [k \in 1..(Cardinality(breaks) + 1) |-> SubSeq(text, Break(k - 1) + 1, Break(k) - 1)]

IsItemLine(line) == IsPrefix(<<"-", SP, "[">>, line)

\* the list items of a text, in order
ItemLines(text) == SelectSeq(Lines(text), IsItemLine)

\* the identifiers the three sections of a document of LinkDocuments list
Listed(doc) == doc.topicSections[1].identifiers

\* the document has a title for the identifier, in a variant or in the table
HasTitle(doc, id) ==
  \/ Has(doc, "variants")
       /\ \E i \in 1..Len(doc.variants) :
            doc.variants[i].identifier = id /\ Truthy(doc.variants[i], "title")
  \/ Has(doc, "references") /\ Has(doc.references, id) /\ Truthy(doc.references[id], "title")

\* the final path segment of an identifier: what follows its last slash
FinalSegment(id) ==
  LET from == CHOOSE k \in 1..(Len(id) + 1) :
                /\ \A j \in k..Len(id) : ~EndsWithSlash(id[j])
                /\ k > 1 => EndsWithSlash(id[k - 1])
  IN SubSeq(id, from, Len(id))

\* a segment without its trailing "-<word characters>", if it has one
WithoutSuffix(seg) ==
  LET dashes == {i \in 2..(Len(seg) - 1) : seg[i] = "-"}
  IN IF \E i \in dashes : \A j \in (i + 1)..Len(seg) : seg[j] \in WordChars
     THEN SubSeq(seg, 1, Max({i \in dashes : \A j \in (i + 1)..Len(seg) : seg[j] \in WordChars}) - 1)
     ELSE seg

\* a segment with a space before every capital that follows a small letter
Spaced(seg) ==
  Join([i \in 1..Len(seg) |->
          IF i > 1 /\ seg[i - 1] \in LowerLetters /\ seg[i] \in UpperLetters
          THEN <<SP, seg[i]>>
          ELSE <<seg[i]>>])

\* the title the heuristic of the specification derives from a segment
DerivedTitle(seg) ==
  IF Occurrences("(", WithoutSuffix(seg)) > 0 /\ Occurrences(")", WithoutSuffix(seg)) > 0
  THEN WithoutSuffix(seg)
  ELSE Spaced(seg)

\* C11: the list item of an identifier for which the document has no
\* variant title and no reference title is titled by the final path segment
\* of the identifier: the segment without its trailing "-<word characters>"
\* when that contains both "(" and ")", and otherwise the segment with a
\* space at every boundary between a small letter and a capital.
C11_TitleFromIdentifier ==
  \A c \in Calls :
    pc[c] = "returned" /\ Has(inputTree, "topicSections") =>
      LET ids == Listed(inputTree)
          items == ItemLines(result[c])
      IN /\ Len(items) = 3 * Len(ids)
         /\ \A k \in 1..Len(items) :
              LET id == ids[((k - 1) % Len(ids)) + 1]
              IN ~HasTitle(inputTree, id) =>
                   IsPrefix(<<"-", SP, "[">> \o DerivedTitle(FinalSegment(id)) \o <<"](">>,
                            items[k])

\* a call has returned the three items of doc://test/init(exactly:)-63925,
\* which has no title, with the signature as their title
C11_Witness ==
  \E c \in Calls :
    /\ pc[c] = "returned"
    /\ Has(inputTree, "topicSections")
    /\ Listed(inputTree) = <<TitlePrefix \o Spell("init(exactly:)-63925")>>
    /\ ~HasTitle(inputTree, Listed(inputTree)[1])
    /\ Len(ItemLines(result[c])) = 3
    /\ \A k \in 1..3 :
         IsPrefix(<<"-", SP, "[", "i", "n", "i", "t", "(", "e", "x", "a", "c", "t", "l", "y",
                    ":", ")", "](">>, ItemLines(result[c])[k])


\* the title a list item shows for an identifier
ShownTitle(doc, id) ==
  IF Has(doc, "variants")
     /\ \E i \in 1..Len(doc.variants) :
          doc.variants[i].identifier = id /\ Truthy(doc.variants[i], "title")
  THEN doc.variants[CHOOSE i \in 1..Len(doc.variants) :
                      doc.variants[i].identifier = id /\ Truthy(doc.variants[i], "title")].title
  ELSE IF HasTitle(doc, id) THEN doc.references[id].title
  ELSE DerivedTitle(FinalSegment(id))

\* the link sections of a document, each with the name of its field
LinkSections(doc) ==
  UNION {{doc[field][s] : s \in 1..Len(doc[field])} :
           field \in {"topicSections", "seeAlsoSections", "relationshipsSections"}
                      \cap DOMAIN doc}

\* the section stands in the lines from line p on: its heading, a blank
\* line, one item per identifier in source order, and then no further item
SectionAt(doc, section, lines, p) ==
  LET ids == section.identifiers
  IN /\ p + Len(ids) + 2 <= Len(lines)
     /\ lines[p] = <<"##", SP>> \o section.title
     /\ lines[p + 1] = <<>>
     /\ \A k \in 1..Len(ids) :
          IsPrefix(<<"-", SP, "[">> \o ShownTitle(doc, ids[k]) \o <<"](">>
                     \o convertIdentifierToURL(ids[k], References(doc)) \o <<")">>,
                   lines[p + 1 + k])
     /\ ~IsItemLine(lines[p + Len(ids) + 2])

\* C14: every topic, see-also and relationship section with a title and an
\* identifier list is rendered as its heading followed by exactly one list
\* item per identifier, in source order, an identifier listed twice giving
\* two items and an identifier without entry or variant giving one; the
\* output has no other list item.
C14_OneItemPerIdentifier ==
  \A c \in Calls :
    pc[c] = "returned" /\ Has(inputTree, "topicSections") =>
      LET lines == Lines(result[c])
      IN /\ \A section \in LinkSections(inputTree) :
              \E p \in 1..Len(lines) : SectionAt(inputTree, section, lines, p)
         /\ Len(ItemLines(result[c])) = 3 * Len(Listed(inputTree))

\* a call has returned for sections that list one identifier twice, and an
\* identifier without entry or variant
C14_Witness ==
  \E c \in Calls :
    /\ pc[c] = "returned"
    /\ Has(inputTree, "topicSections")
    /\ Listed(inputTree) = <<ViewId, TitlePrefix \o Spell("someProperty"), ViewId>>
    /\ ~Has(inputTree, "references")
    /\ Len(ItemLines(result[c])) = 9
    /\ ItemLines(result[c])[1] = ItemLines(result[c])[3]
    /\ ItemLines(result[c])[1] # ItemLines(result[c])[2]


(***************************************************************************)
(* Calls of renderFromJSON with source URLs whose paths have no segment,   *)
(* a few, or many, with empty parts between adjacent slashes and after a   *)
(* trailing slash.                                                         *)
(***************************************************************************)
CrumbPaths ==
  { <<>>,
    <<Spell("documentation")>>,
    <<Spell("documentation"), Spell("swiftui")>>,
    <<Spell("documentation"), Spell("swiftui"), Spell("view")>>,
    <<Spell("documentation"), Spell("swiftui"), Spell("view"), Spell("body")>>,
    <<Spell("documentation"), Spell("swiftui"), Spell("view"), Spell("body"), Spell("view")>>,
    <<Spell("documentation"), <<>>, Spell("swiftui")>>,
    <<Spell("documentation"), Spell("swiftui"), <<>>, Spell("view"), <<>>>>,
    <<Spell("view"), Spell("body"), Spell("swiftui")>>,
    <<Spell("documentation"), <<"3", "d">>, Spell("view")>>,
    <<Spell("documentation"), <<"U", "I">>, Spell("view"), Spell("body")>>,
    <<<<>>, <<>>, <<>>>> }

CrumbUrls == {[origin |-> "https://developer.apple.com", segments |-> path] : path \in CrumbPaths}

CrumbDocuments ==
  { <<>>,
    [metadata |-> [title |-> <<"View">>, roleHeading |-> <<"Protocol">>]],
    [interfaceLanguages |-> [swift |-> <<>>]] }

InitCrumbs ==
  /\ inputTree \in CrumbDocuments
  /\ inputUrl \in CrumbUrls
  /\ clock = 0
  /\ pc = [c \in Calls |-> "frontMatter"]
  /\ stamp = [c \in Calls |-> 0]
  /\ markdown = [c \in Calls |-> <<>>]
  /\ result = [c \in Calls |-> <<>>]
  /\ stack = <<>>
  /\ heap = <<>>
  /\ NoFetch

SpecCrumbs == InitCrumbs /\ [][Next]_vars

(***************************************************************************)
(* Properties of the breadcrumb line, checked under SpecCrumbs.            *)
(***************************************************************************)
IsCrumbLine(line) == IsPrefix(<<"**Navigation:**">>, line)

\* the breadcrumb lines of a text
CrumbLines(text) == SelectSeq(Lines(text), IsCrumbLine)

\* the segments of a path: its parts that are not empty
Segments(url) ==
  LET at == {i \in 1..Len(url.segments) : url.segments[i] # <<>>}
      Nth(k) == CHOOSE i \in at : Cardinality({j \in at : j <= i}) = k
  IN [k \in 1..Cardinality(at) |-> url.segments[Nth(k)]]

\* "/" and the first i of the segments, joined by "/"
PathTo(segments, i) ==
  Join([j \in 1..i |-> <<"/">> \o segments[j]])

\* the k-th link of the breadcrumb line of a path: the framework first,
\* then the intermediate segments in order
Crumb(segments, k) ==
  IF k = 1
  THEN <<"[", UpperChar(segments[2][1])>> \o SubSeq(segments[2], 2, Len(segments[2]))
         \o <<"](", "/documentation/">> \o segments[2] \o <<")">>
  ELSE <<"[">> \o segments[k + 1] \o <<"](">> \o PathTo(segments, k + 1) \o <<")">>

EmissionOrder ==
  <<"frontMatter", "breadcrumbs", "roleHeading", "title", "platforms", "abstract",
    "declarations", "parameters", "content", "relationships", "topics", "index",
    "seeAlso">>

\* a list field that is absent or empty
NoList(r, f) == ~Has(r, f) \/ r[f] = <<>>

\* the document has no source data for the section: the data is absent or
\* empty
NoData(section, doc, url) ==
  CASE section = "frontMatter" -> FALSE
    [] section = "breadcrumbs" -> Len(SelectSeq(url.segments, LAMBDA seg : seg # <<>>)) < 3
    [] section = "roleHeading" -> NoList(Metadata(doc), "roleHeading")
    [] section = "title" -> NoList(Metadata(doc), "title")
    [] section = "platforms" -> NoList(Metadata(doc), "platforms")
    [] section = "abstract" -> NoList(doc, "abstract")
    [] section \in {"declarations", "parameters", "content"} ->
         \A sec \in {SectionsOfKind(doc, section)[i] :
                       i \in 1..Len(SectionsOfKind(doc, section))} :
           NoList(sec, section)
    [] section = "relationships" -> NoList(doc, "relationshipsSections")
    [] section = "topics" -> NoList(doc, "topicSections")
    [] section = "seeAlso" -> NoList(doc, "seeAlsoSections")
    [] section = "index" ->
         \/ ~Has(doc, "interfaceLanguages")
         \/ NoList(doc.interfaceLanguages, "swift")
         \/ NoList(doc.interfaceLanguages.swift[1], "children")

\* the document with the entries of primaryContentSections in reverse order
Reversed(doc) ==
  IF Has(doc, "primaryContentSections")
  THEN [doc EXCEPT !.primaryContentSections =
          [i \in 1..Len(@) |-> @[Len(@) + 1 - i]]]
  ELSE doc

\* C13: a call emits the sections in the fixed order, whatever the order of
\* the entries of primaryContentSections, and a section whose source data
\* is absent or empty (an absent or empty index list included) adds no
\* text: the call goes on to the next section with its markdown unchanged.
C13_FixedOrderNoPlaceholder ==
  /\ [](\A c \in Calls :
          pc[c] = "returned" =>
            /\ result[c] = Trim(Join([i \in 1..Len(EmissionOrder) |->
                                        Appended(EmissionOrder[i], inputTree, inputUrl,
                                                 stamp[c])])) \o Footer
            /\ result[c] = renderFromJSON(Reversed(inputTree), inputUrl, stamp[c]))
  /\ [][\A c \in Calls :
          pc[c] \in {Steps[i] : i \in 1..Len(Steps)} /\ pc'[c] # pc[c]
            /\ NoData(pc[c], inputTree, inputUrl) =>
              /\ markdown'[c] = markdown[c]
              /\ \E i \in 1..Len(EmissionOrder) :
                   /\ EmissionOrder[i] = pc[c]
                   /\ pc'[c] = (IF i < Len(EmissionOrder) THEN EmissionOrder[i + 1]
                                ELSE "trim")]_vars


(***************************************************************************)
(* Calls of renderFromJSON on documents whose optional fields are there,   *)
(* blank, empty or missing: the titles and the abstract the front matter   *)
(* is made of, and the fields the templates of the renderers interpolate.  *)
(***************************************************************************)
MetadataTitles ==
  { <<>>,
    [metadata |-> [title |-> <<"View">>]],
    [metadata |-> [title |-> <<"View", SP>> \o TitleSuffix]],
    [metadata |-> [title |-> TitleSuffix]],
    [metadata |-> [title |-> <<SP>>]],
    [metadata |-> [title |-> <<>>]],
    [metadata |-> [roleHeading |-> <<"Protocol">>]] }

IndexTitles ==
  { <<>>,
    [interfaceLanguages |-> [swift |-> <<[title |-> <<"SwiftUI">>]>>]],
    [interfaceLanguages |-> [swift |-> <<[title |-> <<>>], [title |-> <<"Second">>]>>]] }

Abstracts ==
  { <<>>,
    [abstract |-> <<>>],
    [abstract |-> <<[type |-> "text", text |-> <<"Bar.">>]>>],
    [abstract |-> <<[type |-> "text", text |-> <<SP, SP>>]>>],
    [abstract |-> <<[type |-> "reference", identifier |-> ViewId, title |-> <<"View">>]>>],
    [abstract |-> <<[type |-> "text", text |-> <<SP, "A">>], [type |-> "text"],
                    [type |-> "codeVoice", code |-> <<"x">>],
                    [type |-> "text", text |-> <<SP, "b.", SP>>]>>] }

FrontDocuments == {m @@ i @@ a : m \in MetadataTitles, i \in IndexTitles, a \in Abstracts}

\* one content section holding the given block content
Body(content) == [primaryContentSections |-> <<[kind |-> "content", content |-> content]>>]

\* documents in which a field a template interpolates is missing
OmitDocuments ==
  { Body(<<[type |-> "heading"]>>),
    Body(<<[type |-> "paragraph", inlineContent |-> <<[type |-> "codeVoice"]>>]>>),
    [metadata |-> [platforms |-> <<[name |-> <<"iOS">>]>>]],
    [interfaceLanguages |-> [swift |-> <<[children |-> <<[type |-> "groupMarker"]>>]>>]],
    [primaryContentSections |->
       <<[kind |-> "parameters", parameters |-> <<[content |-> <<Paragraph(<<"x">>)>>]>>]>>],
    Body(<<[type |-> "paragraph",
            inlineContent |-> <<[type |-> "text"], [type |-> "reference"],
                                [type |-> "emphasis"], [type |-> "other"]>>],
           [type |-> "paragraph"],
           [type |-> "aside"],
           [type |-> "codeListing"],
           [type |-> "unorderedList", items |-> <<<<>>>>],
           [type |-> "orderedList"]>>)
      @@ [metadata |-> [platforms |-> <<>>],
          topicSections |-> <<[title |-> <<"Topics">>], [identifiers |-> <<ViewId>>]>>,
          seeAlsoSections |-> <<[title |-> <<"See", SP, "Also">>]>>,
          interfaceLanguages |-> [swift |-> <<[children |-> <<[title |-> <<"View">>]>>]>>]],
    [interfaceLanguages |-> [swift |-> <<>>]] }

InitPage ==
  /\ inputTree \in FrontDocuments \cup OmitDocuments
  /\ inputUrl = [origin |-> "https://test.com", segments |-> <<>>]
  /\ clock = 0
  /\ pc = [c \in Calls |-> "frontMatter"]
  /\ stamp = [c \in Calls |-> 0]
  /\ markdown = [c \in Calls |-> <<>>]
  /\ result = [c \in Calls |-> <<>>]
  /\ stack = <<>>
  /\ heap = <<>>
  /\ NoFetch

SpecPage == InitPage /\ [][Next]_vars


(***************************************************************************)
(* Properties of the front matter and of omitted fields, checked under     *)
(* SpecPage.                                                               *)
(***************************************************************************)
\* the lines between the two "---" lines a text begins with
FrontMatterLines(text) ==
  LET lines == Lines(text)
      close == Min({i \in 2..Len(lines) : lines[i] = <<"---">>})
  IN SubSeq(lines, 2, close - 1)

\* a front-matter line is its key, ":", a space and its value
KeyOf(line) == line[1]
ValueOf(line) == SubSeq(line, 4, Len(line))

\* a text without the spaces around it
Stripped(text) ==
  LET inked == {i \in 1..Len(text) : ~IsWs(text[i])}
  IN IF inked = {} THEN <<>> ELSE SubSeq(text, Min(inked), Max(inked))

\* the titles that can be derived for a document: the metadata title
\* without the suffix, or else the title of the first index entry
DerivableTitles(doc) ==
  LET fromMetadata ==
        IF Has(Metadata(doc), "title")
        THEN {Stripped(RemoveFirst(TitleSuffix, Metadata(doc).title))}
        ELSE {}
      fromIndex ==
        IF Has(doc, "interfaceLanguages") /\ Has(doc.interfaceLanguages, "swift")
           /\ doc.interfaceLanguages.swift # <<>>
           /\ Has(doc.interfaceLanguages.swift[1], "title")
        THEN {doc.interfaceLanguages.swift[1].title}
        ELSE {}
  IN (fromMetadata \cup fromIndex) \ {<<>>}

\* the text-type items of the abstract, concatenated
AbstractTexts(doc) ==
  IF Has(doc, "abstract")
  THEN Join([i \in 1..Len(doc.abstract) |->
               IF Has(doc.abstract[i], "type") /\ doc.abstract[i].type = "text"
                  /\ Has(doc.abstract[i], "text")
               THEN doc.abstract[i].text
               ELSE <<>>])
  ELSE <<>>

\* C15: the front matter ends with the source line and then the timestamp
\* line; before them stand at most a title line, first, and a description
\* line; a title line is there only with a derivable title that is not
\* empty, a description line only when the text of the abstract is not
\* blank, and neither has an empty value.
C15_FrontMatterLines ==
  \A c \in Calls :
    pc[c] = "returned" =>
      LET fm == FrontMatterLines(result[c])
          n == Len(fm)
      IN /\ n >= 2
         /\ fm[n - 1] = <<"source", ":", SP>> \o UrlText(inputUrl)
         /\ fm[n] = <<"timestamp", ":", SP, ISOString(stamp[c])>>
         /\ \A i \in 1..(n - 2) :
              /\ KeyOf(fm[i]) \in {"title", "description"}
              /\ ValueOf(fm[i]) # <<>>
              /\ KeyOf(fm[i]) = "title" =>
                   i = 1 /\ ValueOf(fm[i]) \in DerivableTitles(inputTree)
              /\ KeyOf(fm[i]) = "description" =>
                   /\ i = n - 2
                   /\ Stripped(AbstractTexts(inputTree)) # <<>>
                   /\ ValueOf(fm[i]) = Stripped(AbstractTexts(inputTree))
         /\ n <= 4
         /\ n = 4 => KeyOf(fm[1]) = "title" /\ KeyOf(fm[2]) = "description"


\* the texts a missing value is stringified to
Stringified == {"undefined", "null", "[object Object]"}

\* C16: a field that is missing is left out of the output, never
\* stringified: no returned text holds "undefined", "null" or
\* "[object Object]" (none of the documents holds such a text itself).
C16_AbsentFieldsOmitted ==
  \A c \in Calls :
    pc[c] = "returned" => \A i \in 1..Len(result[c]) : result[c][i] \notin Stringified


(***************************************************************************)
(* Fetching.  A documentation path is a string whose tokens are "/",       *)
(* "documentation", whitespace characters and the characters of its other  *)
(* words.  fetchJSONData sends one request upstream and settles on the     *)
(* answer; the fetch tool of the MCP server makes the Apple source URL,    *)
(* calls fetchJSONData and renders what it returns.                        *)
(***************************************************************************)
\* index.ts:185
APPLE_DOC_BASE_URL == <<"https://developer.apple.com", "/", "documentation", "/">>

\* fetch.ts:52-79: the number of entries of USER_AGENTS
UserAgentCount == 28

\* mcp.ts:195: the least length of a markdown the tool accepts
MinContentLength == 100

\* a normalization that removes every leading slash
RECURSIVE normalizeDocumentationPathGreedy(_)
normalizeDocumentationPathGreedy(path) ==
  LET trimmed == Trim(path)
  IN IF trimmed = <<>> THEN <<>>
     ELSE IF trimmed[1] \in {"/", "documentation"}
     THEN normalizeDocumentationPathGreedy(Tail(trimmed))
     ELSE trimmed

\* index.ts:200-211: path.trim().replace(/^\/?(?:documentation\/?)?/, "")
normalizeDocumentationPath(path) ==
  IF path = <<>> THEN <<>>
  ELSE LET trimmed == Trim(path)
           At(i) == IF i <= Len(trimmed) THEN trimmed[i] ELSE ""
           slash == IF At(1) = "/" THEN 1 ELSE 0
           prefix == IF At(slash + 1) # "documentation" THEN 0
                     ELSE IF At(slash + 2) = "/" THEN 2
                     ELSE 1
       IN SubSeq(trimmed, slash + prefix + 1, Len(trimmed))

\* index.ts:219-225
generateAppleDocUrl(normalizedPath) ==
  IF normalizedPath = <<>> THEN APPLE_DOC_BASE_URL ELSE APPLE_DOC_BASE_URL \o normalizedPath

\* String.prototype.split(sep)
SplitOn(sep, text) ==
  LET cuts == {i \in 1..Len(text) : text[i] = sep}
      Cut(k) == IF k = 0 THEN 0
                ELSE IF k > Cardinality(cuts) THEN Len(text) + 1
                ELSE CHOOSE i \in cuts : Cardinality({j \in cuts : j <= i}) = k
  IN [k \in 1..(Cardinality(cuts) + 1) |-> SubSeq(text, Cut(k - 1) + 1, Cut(k) - 1)]

\* fetch.ts:14-30: the upstream URL of a path
jsonUrl(path) ==
  LET normalizedPath == normalizeDocumentationPath(path)
      jsonPath == <<"documentation", "/">> \o normalizedPath
      parts == SplitOn("/", jsonPath)
  IN IF Len(parts) = 2
     THEN <<"https://developer.apple.com/tutorials/data/index/">> \o parts[2]
     ELSE <<"https://developer.apple.com/tutorials/data/">> \o jsonPath \o <<".json">>

\* fetch.ts:35-41: the request fetchJSONData sends for a path
UpstreamRequest(path, agent) ==
  [url |-> jsonUrl(path),
   headers |-> [UserAgent |-> agent, Accept |-> "application/json", CacheControl |-> "no-cache"]]

\* new URL(sourceUrl): the origin and the parts of the path
ParseUrl(url) == [origin |-> url[1], segments |-> Tail(SplitOn("/", Tail(url)))]

\* the number of characters of a text
RECURSIVE CharLength(_, _, _)
CharLength(text, lo, hi) ==
  IF lo > hi THEN 0
  ELSE IF lo = hi THEN Len(text[lo])
  ELSE CharLength(text, lo, (lo + hi) \div 2) + CharLength(text, (lo + hi) \div 2 + 1, hi)

\* the pages asked for, and the forms in which a path can name one
Pages ==
  { Spell("swiftui"),
    Spell("swiftui") \o <<"/">> \o Spell("view"),
    Spell("swiftui") \o <<"/">> \o Spell("view") \o <<"/">> \o Spell("body") }

FetchPaths ==
  Pages
    \cup {<<"documentation", "/">> \o p : p \in Pages}
    \cup {<<"/", "documentation", "/">> \o p : p \in Pages}
    \cup { <<>>, <<SP, SP>>, <<"/">>, <<"documentation">>, <<"/", "documentation">>,
           <<"/", "documentation", "/">>,
           <<"/", "/">> \o Spell("swiftui") \o <<"/">> \o Spell("view"),
           <<"documentation">> \o Spell("swiftui") \o <<"/">> \o Spell("view"),
           <<"/", "documentation", "/", "documentation", "/">> \o Spell("swiftui"),
           <<SP, "/", "documentation", "/">> \o Spell("swiftui") \o <<SP>>,
           <<"\t">> \o Spell("swiftui") \o <<"/">> \o Spell("view") \o <<NL>>,
           Spell("swiftui") \o <<"/">> \o Spell("view") \o <<"/">>,
           <<"Documentation", "/">> \o Spell("swiftui") }

\* what the upstream can hold for a URL
UpstreamDocuments ==
  { [metadata |-> [title |-> <<"View">>, roleHeading |-> <<"Protocol">>],
     abstract |-> <<[type |-> "text", text |-> <<"A", SP, "view.">>]>>],
    [interfaceLanguages |-> [swift |-> <<>>]] }

\* the answers of the upstream: a JSON body, a body that is no JSON, a
\* status that is not OK, or no answer at all
Responses ==
  {[kind |-> "ok", body |-> doc] : doc \in UpstreamDocuments}
    \cup { [kind |-> "ok"],
           [kind |-> "notOk", status |-> "404", statusText |-> "Not Found"],
           [kind |-> "notOk", status |-> "500", statusText |-> "Internal Server Error"],
           [kind |-> "networkError", message |-> "fetch failed"] }

\* mcp.ts:185-192: the handler of the fetch tool runs up to the request that
\* fetchJSONData (fetch.ts:12-41) sends
ToolStart ==
  /\ call.via = "tool"
  /\ fetched.state = "none"
  /\ appleUrl' = generateAppleDocUrl(normalizeDocumentationPath(call.path))
  /\ \E agent \in 1..UserAgentCount :
       requests' = Append(requests,
                          UpstreamRequest(<<"/", "documentation", "/">> \o call.path, agent))
  /\ fetched' = [state |-> "pending"]
  /\ UNCHANGED <<inputTree, inputUrl, clock, pc, stamp, markdown, result, stack, heap,
                 call, response, toolResult, structured, parser>>

\* fetch.ts:12-41: fetchJSONData(path) runs up to the request it sends
DirectStart ==
  /\ call.via = "direct"
  /\ fetched.state = "none"
  /\ \E agent \in 1..UserAgentCount :
       requests' = Append(requests, UpstreamRequest(call.path, agent))
  /\ fetched' = [state |-> "pending"]
  /\ UNCHANGED <<inputTree, inputUrl, clock, pc, stamp, markdown, result, stack, heap,
                 call, appleUrl, response, toolResult, structured, parser>>

\* the upstream answers the request, or the network fails
Respond ==
  /\ fetched.state = "pending"
  /\ response.kind = "none"
  /\ response' \in Responses
  /\ UNCHANGED <<inputTree, inputUrl, clock, pc, stamp, markdown, result, stack, heap,
                 call, appleUrl, requests, fetched, toolResult, structured, parser>>

\* a fetchJSONData that asks again when the answer is not OK
FetchSettleRetrying ==
  /\ fetched.state = "pending"
  /\ response.kind # "none"
  /\ IF response.kind = "notOk" /\ Len(requests) < 2
     THEN /\ requests' = Append(requests, requests[1])
          /\ response' = [kind |-> "none"]
          /\ fetched' = fetched
     ELSE /\ fetched' = IF response.kind = "ok" /\ Has(response, "body")
                        THEN [state |-> "fulfilled", data |-> response.body]
                        ELSE [state |-> "rejected", message |-> <<"failed">>]
          /\ UNCHANGED <<requests, response>>
  /\ UNCHANGED <<inputTree, inputUrl, clock, pc, stamp, markdown, result, stack, heap,
                 call, appleUrl, toolResult, structured, parser>>

\* fetch.ts:35-49: the await of fetch ends, and fetchJSONData settles
FetchSettle ==
  /\ fetched.state = "pending"
  /\ response.kind # "none"
  /\ fetched' =
       CASE response.kind = "networkError" ->
              [state |-> "rejected", message |-> <<response.message>>]
         [] response.kind = "notOk" ->
              [state |-> "rejected",
               message |-> <<"Failed to fetch JSON: ", response.status, SP,
                             response.statusText>>]
         [] response.kind = "ok" /\ ~Has(response, "body") ->
              [state |-> "rejected", message |-> <<"Unexpected token">>]
         [] OTHER -> [state |-> "fulfilled", data |-> response.body]
  /\ UNCHANGED <<inputTree, inputUrl, clock, pc, stamp, markdown, result, stack, heap,
                 call, appleUrl, requests, response, toolResult, structured, parser>>

\* mcp.ts:35, 195 and index.ts:89: !markdown || markdown.trim().length < 100
InsufficientContent(text) ==
  text = <<>> \/ CharLength(Trim(text), 1, Len(Trim(text))) < MinContentLength

\* mcp.ts:208-217: the text the tool answers with when something was thrown
ErrorText(path, message) ==
  <<"Error fetching documentation for \"">> \o path \o <<"\": ">> \o message

\* mcp.ts:192-217: fetchJSONData has settled; the handler renders what it
\* returned and answers with the markdown, or answers with the error
ToolAnswer ==
  /\ call.via = "tool"
  /\ fetched.state \in {"fulfilled", "rejected"}
  /\ toolResult = <<>>
  /\ IF fetched.state = "rejected"
     THEN /\ toolResult' = ErrorText(call.path, fetched.message)
          /\ UNCHANGED <<inputTree, inputUrl, pc, result>>
     ELSE LET sourceUrl == ParseUrl(appleUrl)
              text == MarkdownAfter(Len(Steps), fetched.data, sourceUrl, clock)
              rendered == renderFromJSON(fetched.data, sourceUrl, clock)
          IN /\ inputTree' = fetched.data
             /\ inputUrl' = sourceUrl
             /\ IF Throws(text)
                THEN /\ pc' = [pc EXCEPT ![1] = "threw"]
                     /\ result' = result
                     /\ toolResult' = ErrorText(call.path, <<"TypeError">>)
                ELSE /\ pc' = [pc EXCEPT ![1] = "returned"]
                     /\ result' = [result EXCEPT ![1] = rendered]
                     /\ toolResult' =
                          IF InsufficientContent(rendered)
                          THEN ErrorText(call.path,
                                         <<"Insufficient content in documentation">>)
                          ELSE rendered
  /\ UNCHANGED <<clock, stamp, markdown, stack, heap, call, appleUrl, requests, response,
                 fetched, structured, parser>>

FetchCalls == {[via |-> via, path |-> path] : via \in {"tool", "direct"}, path \in FetchPaths}

InitFetch ==
  /\ inputTree = <<>>
  /\ inputUrl = [origin |-> "https://test.com", segments |-> <<>>]
  /\ clock = 0
  /\ pc = [c \in Calls |-> "frontMatter"]
  /\ stamp = [c \in Calls |-> 0]
  /\ markdown = [c \in Calls |-> <<>>]
  /\ result = [c \in Calls |-> <<>>]
  /\ stack = <<>>
  /\ heap = <<>>
  /\ call \in FetchCalls
  /\ appleUrl = <<>>
  /\ requests = <<>>
  /\ response = [kind |-> "none"]
  /\ fetched = [state |-> "none"]
  /\ toolResult = <<>>
  /\ structured = <<>>
  /\ parser = <<>>

NextFetch ==
  \/ ToolStart
  \/ DirectStart
  \/ Respond
  \/ FetchSettle
  \/ ToolAnswer

SpecFetch == InitFetch /\ [][NextFetch]_vars


(***************************************************************************)
(* Properties of fetching, checked under SpecFetch.                        *)
(***************************************************************************)
\* a text as one string
RECURSIVE Flat(_, _, _)
Flat(text, lo, hi) ==
  IF lo > hi THEN ""
  ELSE IF lo = hi THEN text[lo]
  ELSE Flat(text, lo, (lo + hi) \div 2) \o Flat(text, (lo + hi) \div 2 + 1, hi)

AsString(text) == Flat(text, 1, Len(text))

\* the path fetchJSONData is called with
FetchArgument ==
  IF call.via = "tool" THEN <<"/", "documentation", "/">> \o call.path ELSE call.path

\* the number of segments of a path: the parts its slashes separate
SegmentCount(path) == Cardinality({i \in 1..Len(path) : path[i] = "/"}) + 1

\* C17: a call of fetchJSONData sends exactly one request upstream, to the
\* index URL of the framework when the normalized path is a single segment
\* and else to the JSON URL of the page; when the answer is not OK or the
\* network fails the call rejects, returns no data, and sends nothing more.
C17_OneRequestOrReject ==
  /\ [](/\ Len(requests) <= 1
        /\ fetched.state # "none" =>
             /\ Len(requests) = 1
             /\ LET normalized == normalizeDocumentationPath(FetchArgument)
                IN AsString(requests[1].url) =
                     (IF SegmentCount(normalized) = 1
                      THEN "https://developer.apple.com/tutorials/data/index/"
                             \o AsString(normalized)
                      ELSE "https://developer.apple.com/tutorials/data/documentation/"
                             \o AsString(normalized) \o ".json")
        /\ fetched.state \in {"fulfilled", "rejected"} /\ response.kind # "ok" =>
             fetched.state = "rejected" /\ ~Has(fetched, "data")
        /\ fetched.state = "fulfilled" => response.kind = "ok" /\ fetched.data = response.body)
  /\ [][fetched.state = "rejected" => fetched' = fetched /\ requests' = requests]_vars

\* fetchJSONData has rejected on a 404 for the one request it sent, to the
\* index URL of a framework
C17_Witness ==
  /\ call = [via |-> "direct", path |-> <<"/", "documentation", "/">> \o Spell("swiftui")]
  /\ response.kind = "notOk"
  /\ response.status = "404"
  /\ fetched.state = "rejected"
  /\ Len(requests) = 1
  /\ AsString(requests[1].url) = "https://developer.apple.com/tutorials/data/index/swiftui"


\* the forms in which a path names a page: full, without the leading slash,
\* and relative
FormsOf(page) ==
  {<<"/", "documentation", "/">> \o page, <<"documentation", "/">> \o page, page}

\* C18: called with any of the three forms of the path of a page, the fetch
\* tool requests the upstream URL that fetchJSONData requests for
\* "/documentation/<page>" and renders with the Apple source URL
\* https://developer.apple.com/documentation/<page>.
C18_FullAndRelativePaths ==
  \A page \in Pages :
    call.via = "tool" /\ call.path \in FormsOf(page) /\ fetched.state # "none" =>
      /\ requests[1].url = jsonUrl(<<"/", "documentation", "/">> \o page)
      /\ AsString(appleUrl) = "https://developer.apple.com/documentation/" \o AsString(page)


\* a path without one leading "/" and without one leading "documentation"
\* and the "/" that may follow it, the surrounding whitespace trimmed first
Unprefixed(path) ==
  LET Starts(t, s) == s # <<>> /\ s[1] = t
      trimmed == Stripped(path)
      unslashed == IF Starts("/", trimmed) THEN Tail(trimmed) ELSE trimmed
      bare == IF Starts("documentation", unslashed) THEN Tail(unslashed) ELSE unslashed
  IN IF Starts("documentation", unslashed) /\ Starts("/", bare) THEN Tail(bare) ELSE bare

C20_InlineDepthResets ==
  /\ \A k \in 2..Len(stack) :
       stack[k].fn = "inline" /\ stack[k - 1].fn = "block" => stack[k].depth = 0
  /\ pc[1] = "returned" /\ Boxes <= MaxBlockDepth /\ SpanDepth <= MaxInlineDepth =>
       /\ Occurrences(InlineSentinel, result[1]) = 0
       /\ HasLeaf => Occurrences("leaf", result[1]) = 1


(***************************************************************************)
(* Calls of renderFromJSON on documents that link to one identifier whose  *)
(* table entry has no url: identifiers of Apple and of other vendors, with *)
(* "/documentation/" right after the domain, further on, twice, last, or   *)
(* not at all.                                                             *)
(***************************************************************************)
TargetIds ==
  { ViewId, PropertyId, InitId, PlainId,
    <<"doc://", "com.apple.", "Foundation", "/documentation/", "Foundation", "/", "NSString">>,
    <<"doc://", "org.swift.", "docc", "/documentation/", "docc", "/", "Catalog">>,
    <<"doc://", "com.example.", "Lib", "/documentation/", "Lib">>,
    <<"doc://", "com.apple.", "SwiftUI", "/documentation/">>,
    <<"doc://", "com.apple.", "Foundation", "/documentation/">>,
    <<"doc://", "com.apple.", "UIKit", "/", "guides", "/documentation/", "UIView">>,
    <<"doc://", "com.apple.", "Swift", "/documentation/", "a", "/documentation/", "b">>,
    <<"doc://", "com.apple.", "Swift", "/documentation/", "a", NL, "b">>,
    <<"doc://", "com.apple.", "SwiftUI", "/documentation/", "a", NL, "b">>,
    <<"doc://", "com.apple.", "Swift", "/", "Array">>,
    <<"unknown://", "identifier", "/", "format">>,
    <<"https://developer.apple.com", "/documentation/", "swift">> }

TargetDocuments ==
  {ResolveDocument(id, <<>>) : id \in TargetIds}
    \cup {[interfaceLanguages |-> [swift |-> <<>>]]}

InitTargets ==
  /\ inputTree \in TargetDocuments
  /\ inputUrl = [origin |-> "https://test.com", segments |-> <<>>]
  /\ clock = 0
  /\ pc = [c \in Calls |-> "frontMatter"]
  /\ stamp = [c \in Calls |-> 0]
  /\ markdown = [c \in Calls |-> <<>>]
  /\ result = [c \in Calls |-> <<>>]
  /\ stack = <<>>
  /\ heap = <<>>
  /\ NoFetch

SpecTargets == InitTargets /\ [][Next]_vars

\* where the "/documentation/" of an identifier of the form
\* doc://<reverse-domain>/documentation/<rest> stands: after "doc://" and a
\* domain without a slash, with something after it; 0 for any other
\* identifier
VendorFormAt(id) ==
  LET at == {i \in 3..(Len(id) - 1) :
               /\ id[1] = "doc://"
               /\ id[i] = "/documentation/"
               /\ \A j \in 2..(i - 1) : id[j] \notin {"/", "/documentation/", NL}}
  IN IF at = {} THEN 0 ELSE CHOOSE i \in at : TRUE

\* C21 as stated: without a url in the table, every identifier of the form
\* doc://<reverse-domain>/documentation/<rest>, whatever the domain, is
\* linked as /documentation/<rest>, and every other identifier as it is.
C21_AnyVendorRewritten ==
  \A c \in Calls :
    pc[c] = "returned" /\ Has(inputTree, "references") =>
      LET id == LinkedId(inputTree)
          target == IF VendorFormAt(id) > 0
                    THEN <<"/documentation/">> \o SubSeq(id, VendorFormAt(id) + 1, Len(id))
                    ELSE id
      IN /\ Cardinality(LinksTo(target, result[c])) = 4
         /\ Occurrences("](", result[c]) = 4

\* the link target of an identifier that has no url in the table, by the
\* amended rule
AppleTarget(id) ==
  LET apple == Len(id) >= 2 /\ id[1] = "doc://" /\ id[2] = "com.apple."
      swiftUI == apple /\ Len(id) >= 4 /\ id[3] = "SwiftUI" /\ id[4] = "/documentation/"
      followed == {i \in 1..(Len(id) - 1) : id[i] = "/documentation/" /\ id[i + 1] # NL}
      first == CHOOSE i \in followed : \A k \in followed : i <= k
      line == CHOOSE n \in first..Len(id) :
                /\ \A k \in (first + 1)..n : id[k] # NL
                /\ n = Len(id) \/ id[n + 1] = NL
  IN IF swiftUI THEN <<"/documentation/">> \o SubSeq(id, 5, Len(id))
     ELSE IF apple /\ followed # {}
     THEN <<"/documentation/">> \o SubSeq(id, first + 1, line)
     ELSE id

\* C21: without a url in the table, an identifier that starts with
\* doc://com.apple.SwiftUI/documentation/ is linked as /documentation/
\* followed by what follows that prefix; any other identifier that starts
\* with doc://com.apple. and has a "/documentation/" with a character other
\* than a line terminator after it is linked as /documentation/ followed by
\* the rest of the line after the first such "/documentation/"; every other
\* identifier, that of another vendor included, is linked as it is.
C21_AppleRewritten ==
  \A c \in Calls :
    pc[c] = "returned" /\ Has(inputTree, "references") =>
      /\ Cardinality(LinksTo(AppleTarget(LinkedId(inputTree)), result[c])) = 4
      /\ Occurrences("](", result[c]) = 4

\* a call has returned for an identifier of another vendor, linked as it is
C21_Witness ==
  \E c \in Calls :
    /\ pc[c] = "returned"
    /\ Has(inputTree, "references")
    /\ ~Has(inputTree.references[LinkedId(inputTree)], "url")
    /\ LinkedId(inputTree)
         = <<"doc://", "org.swift.", "docc", "/documentation/", "docc", "/", "Catalog">>
    /\ Cardinality(LinksTo(LinkedId(inputTree), result[c])) = 4


(***************************************************************************)
(* Calls of renderFromJSON on documents whose one paragraph holds one      *)
(* inline reference: the node has a title, a text, both or neither, and    *)
(* the table has an entry with a title for its identifier, an entry        *)
(* without one, or no entry.                                               *)
(***************************************************************************)
InlineId == TitlePrefix \o Spell("someProperty")

ReferenceNodes ==
  LET node == [type |-> "reference", identifier |-> InlineId]
  IN { node,
       node @@ [title |-> <<"Node", SP, "title">>],
       node @@ [text |-> <<"Node", SP, "text">>],
       node @@ [title |-> <<"Node", SP, "title">>, text |-> <<"Node", SP, "text">>],
       node @@ [title |-> <<>>, text |-> <<"Node", SP, "text">>],
       node @@ [title |-> <<>>, text |-> <<>>] }

InlineTables ==
  { <<>>,
    [references |-> (InlineId :> [title |-> <<"Entry", SP, "title">>])],
    [references |-> (InlineId :> [url |-> <<"/documentation/test/someproperty">>])],
    [references |-> (InlineId :> [title |-> <<>>])] }

InlineDocuments ==
  { [metadata |-> [title |-> <<"Inline">>],
     primaryContentSections |->
       <<[kind |-> "content",
          content |-> <<[type |-> "paragraph", inlineContent |-> <<node>>]>>]>>] @@ table :
      node \in ReferenceNodes, table \in InlineTables }
    \cup {[interfaceLanguages |-> [swift |-> <<>>]]}

InitInline ==
  /\ inputTree \in InlineDocuments
  /\ inputUrl = [origin |-> "https://test.com", segments |-> <<>>]
  /\ clock = 0
  /\ pc = [c \in Calls |-> "frontMatter"]
  /\ stamp = [c \in Calls |-> 0]
  /\ markdown = [c \in Calls |-> <<>>]
  /\ result = [c \in Calls |-> <<>>]
  /\ stack = <<>>
  /\ heap = <<>>
  /\ NoFetch

SpecInline == InitInline /\ [][Next]_vars

\* the inline reference node of a document
ReferenceNode(doc) == doc.primaryContentSections[1].content[1].inlineContent[1]

\* the first of the texts that is there and not empty
FirstOf(texts) ==
  LET there == {i \in 1..Len(texts) : texts[i] # <<>>}
  IN IF there = {} THEN <<>> ELSE texts[CHOOSE i \in there : \A k \in there : i <= k]

\* C22: the link of an inline reference shows the node's own title, else
\* its text, else the title of the table entry of its identifier, else the
\* title derived from the identifier; so no inline reference with an
\* identifier is rendered with an empty link title, "[](...)".
C22_InlineTitlePrecedence ==
  \A c \in Calls :
    pc[c] = "returned" /\ Has(inputTree, "primaryContentSections") =>
      LET node == ReferenceNode(inputTree)
          id == node.identifier
          entry == FindReference(References(inputTree), id)
          title == FirstOf(<<OrEmpty(node, "title"), OrEmpty(node, "text"),
                             OrEmpty(entry, "title"), DerivedTitle(FinalSegment(id))>>)
      IN /\ Matches(<<"[">> \o title \o <<"](">>, result[c]) # {}
         /\ Matches(<<"[", "](">>, result[c]) = {}


(***************************************************************************)
(* Calls of renderFromJSON on documents whose content is one heading with  *)
(* an integer level, from below 1 to above 6, and a paragraph after it.    *)
(***************************************************************************)
HeadingLevels == -2..8

HeadingDocuments ==
  { [metadata |-> [title |-> <<"Levels">>],
     primaryContentSections |->
       <<[kind |-> "content",
          content |-> <<[type |-> "heading", level |-> L, text |-> <<"Section">>],
                        Paragraph(<<"Body.">>)>>]>>] : L \in HeadingLevels }
    \cup {[interfaceLanguages |-> [swift |-> <<>>]]}

InitHeadings ==
  /\ inputTree \in HeadingDocuments
  /\ inputUrl = [origin |-> "https://test.com", segments |-> <<>>]
  /\ clock = 0
  /\ pc = [c \in Calls |-> "frontMatter"]
  /\ stamp = [c \in Calls |-> 0]
  /\ markdown = [c \in Calls |-> <<>>]
  /\ result = [c \in Calls |-> <<>>]
  /\ stack = <<>>
  /\ heap = <<>>
  /\ NoFetch

SpecHeadings == InitHeadings /\ [][Next]_vars

\* the level of the heading of a document
HeadingLevel(doc) == doc.primaryContentSections[1].content[1].level

\* the line of a heading with n "#"
HeadingLine(n, text) == [i \in 1..n |-> "#"] \o <<SP>> \o text

\* C23: a heading with integer level L is rendered as a line of exactly
\* min(max(L, 1), 6) "#", a space and the heading text, for every L, those
\* below 1 and above 6 included, and rendering it never fails.
C23_HeadingLevelClamped ==
  \A c \in Calls :
    Has(inputTree, "primaryContentSections") =>
      /\ pc[c] # "threw"
      /\ pc[c] = "returned" =>
           Matches(<<NL>> \o HeadingLine(Min({Max({HeadingLevel(inputTree), 1}), 6}),
                                         <<"Section">>) \o <<NL>>,
                   result[c]) # {}


\* the title of a segment when the suffix is removed before either branch
\* of the heuristic
StrippedTitle(seg) ==
  IF Occurrences("(", WithoutSuffix(seg)) > 0 /\ Occurrences(")", WithoutSuffix(seg)) > 0
  THEN WithoutSuffix(seg)
  ELSE Spaced(WithoutSuffix(seg))

\* C24: the trailing "-<disambiguator>" is removed from the final segment
\* before either branch of the title heuristic: a segment without
\* parentheses is titled by its camel-case split without the suffix, so the
\* suffix never shows in the title of a list item.
C24_SuffixStrippedFirst ==
  \A c \in Calls :
    pc[c] = "returned" /\ Has(inputTree, "topicSections") =>
      LET ids == Listed(inputTree)
          items == ItemLines(result[c])
      IN \A k \in 1..Len(items) :
           LET id == ids[((k - 1) % Len(ids)) + 1]
           IN ~HasTitle(inputTree, id) =>
                IsPrefix(<<"-", SP, "[">> \o StrippedTitle(FinalSegment(id)) \o <<"](">>,
                         items[k])


\* the variant entry and the table entry of an identifier a document has
\* both for
VariantOf(doc, id) ==
  doc.variants[CHOOSE i \in 1..Len(doc.variants) :
                 /\ doc.variants[i].identifier = id
                 /\ \A j \in 1..(i - 1) : doc.variants[j].identifier # id]

HasBoth(doc, id) ==
  /\ Has(doc, "variants") /\ \E i \in 1..Len(doc.variants) : doc.variants[i].identifier = id
  /\ Has(doc, "references") /\ id \in DOMAIN doc.references

\* the text of an abstract: its fragments' texts in a row
Concatenated(abstract) ==
  IF abstract = <<>> THEN <<>>
  ELSE JoinRange([i \in 1..Len(abstract) |-> abstract[i].text], 1, Len(abstract))

\* the k-th list item of the output belongs to the topic section: the
\* relationships come first, then the topics, then the see-also section
InTopics(doc, k) == (k - 1) \div Len(Listed(doc)) = 1

\* the list item shows the title, and, in the topic section, ends with the
\* abstract or, when that is empty, with its link
ItemShows(doc, k, line, title, abstract) ==
  /\ IsPrefix(<<"-", SP, "[">> \o title \o <<"](">>, line)
  /\ InTopics(doc, k) =>
       IF abstract = <<>> THEN line[Len(line)] = ")"
       ELSE IsSuffix(<<")", SP>> \o abstract, line)

EntriesOf(doc, id) ==
  (IF Has(doc, "variants") /\ \E i \in 1..Len(doc.variants) : doc.variants[i].identifier = id
   THEN <<VariantOf(doc, id)>> ELSE <<>>)
    \o (IF Has(doc, "references") /\ id \in DOMAIN doc.references
        THEN <<doc.references[id]>> ELSE <<>>)

\* the abstract texts the entries of an identifier supply
SuppliedAbstracts(doc, id) ==
  LET entries == EntriesOf(doc, id)
  IN [i \in 1..Len(entries) |->
        IF Has(entries[i], "abstract") THEN Concatenated(entries[i].abstract) ELSE <<>>]

\* the list item ends with the abstract or, when that is empty, with its
\* link
EndsWith(line, abstract) ==
  IF abstract = <<>>
  THEN line[Len(line)] = ")" /\ Occurrences("About.", line) + Occurrences("about.", line) = 0
  ELSE IsSuffix(<<")", SP>> \o abstract, line)

\* C26 as stated: in the topic, see-also and relationship sections alike, a
\* list item is followed by the abstract text of the entry of its
\* identifier whenever an entry supplies one that is not empty, and by
\* nothing otherwise.
C26_AbstractInEverySection ==
  \A c \in Calls :
    pc[c] = "returned" /\ Has(inputTree, "topicSections") =>
      LET ids == Listed(inputTree)
          items == ItemLines(result[c])
      IN \A k \in 1..Len(items) :
           EndsWith(items[k],
                    FirstOf(SuppliedAbstracts(inputTree, ids[((k - 1) % Len(ids)) + 1])))

\* C26: a list item of a topic section is followed by the abstract text of
\* the variant entry of its identifier when the variant has an abstract,
\* else by that of its table entry, and by nothing when that text is empty
\* or there is none; a list item of a see-also or relationship section is
\* never followed by an abstract.
C26_AbstractInTopicsOnly ==
  \A c \in Calls :
    pc[c] = "returned" /\ Has(inputTree, "topicSections") =>
      LET ids == Listed(inputTree)
          items == ItemLines(result[c])
      IN /\ Len(items) = 3 * Len(ids)
         /\ \A k \in 1..Len(items) :
              LET id == ids[((k - 1) % Len(ids)) + 1]
                  entries == EntriesOf(inputTree, id)
                  having == {i \in 1..Len(entries) : Has(entries[i], "abstract")}
              IN EndsWith(items[k],
                          IF InTopics(inputTree, k) /\ having # {}
                          THEN SuppliedAbstracts(inputTree, id)[Min(having)]
                          ELSE <<>>)

\* a call has returned for an identifier whose table entry has an abstract:
\* its topic item shows the abstract, its two other items do not
C26_Witness ==
  \E c \in Calls :
    /\ pc[c] = "returned"
    /\ Has(inputTree, "topicSections")
    /\ Listed(inputTree) = <<TitlePrefix \o Spell("someProperty")>>
    /\ ~Has(inputTree, "variants")
    /\ FirstOf(SuppliedAbstracts(inputTree, Listed(inputTree)[1])) = <<"About.">>
    /\ Len(ItemLines(result[c])) = 3
    /\ IsSuffix(<<")", SP, "About.">>, ItemLines(result[c])[2])
    /\ IsSuffix(<<")">>, ItemLines(result[c])[1])
    /\ IsSuffix(<<")">>, ItemLines(result[c])[3])


(***************************************************************************)
(* The index tree alone: renderIndexContent applied to the children of the *)
(* root, followed call by call.  heap[a] is the array of children at       *)
(* address a, a children field holds an address, and the root children are *)
(* at address 1.  A frame is one activation of                             *)
(* renderIndexContentWithIndent: its children and headingLevel arguments,  *)
(* the index i of the child the loop is at, and its markdown accumulator.  *)
(***************************************************************************)
\* the deepest tree has this many levels below its root children
MaxIndexDepth == 52

IndexDepths == {0, 1, 3, 4, 5, MaxInlineDepth + 1, MaxBlockDepth + 1, MaxIndexDepth}

\* the node with a path and a title at level n: flagged beta, flagged not
\* beta, or not flagged
IndexItem(n) ==
  [path |-> <<"/documentation/level/", ToString(n)>>, title |-> <<"Item", SP, ToString(n)>>]
    @@ (CASE n % 3 = 0 -> [beta |-> TRUE]
          [] n % 3 = 1 -> [beta |-> FALSE]
          [] OTHER -> <<>>)

\* arrays 1..depth+1: each holds a group marker and a node whose children
\* are the next array; with siblings, a node without a path, a second
\* group marker and a node without a title as well
IndexHeap(depth, siblings) ==
  [a \in 1..(depth + 1) |->
     <<[type |-> "groupMarker", title |-> <<"Group", SP, ToString(a - 1)>>],
       IndexItem(a - 1) @@ (IF a <= depth THEN [children |-> a + 1] ELSE <<>>)>>
       \o (IF siblings
           THEN <<[title |-> <<"Pathless">>, children |-> 1],
                  [type |-> "groupMarker", title |-> <<"Tail", SP, ToString(a - 1)>>],
                  [path |-> <<"/documentation/untitled">>]>>
           ELSE <<>>)]

IndexHeaps == {IndexHeap(depth, siblings) : depth \in IndexDepths, siblings \in BOOLEAN}

IndexFrame(children, headingLevel) ==
  [fn |-> "index", children |-> children, headingLevel |-> headingLevel, i |-> 1,
   markdown |-> <<>>]

IndexChild(frame) == heap[frame.children][frame.i]

\* a loop that a depth guard like that of the Block Walker ends
IndexFinishedGuarded(frame) ==
  frame.headingLevel > 2 + MaxBlockDepth \/ frame.i > Len(heap[frame.children])

\* render.ts:409: the loop of the frame is over
IndexFinished(frame) == frame.i > Len(heap[frame.children])

\* render.ts:421, 426: the child is a list item with children to descend into
IndexDescends(frame) ==
  /\ TypeOf(IndexChild(frame)) # "groupMarker"
  /\ Truthy(IndexChild(frame), "path") /\ Truthy(IndexChild(frame), "title")
  /\ Has(IndexChild(frame), "children")

\* render.ts:422-425: `- [${child.title}](${child.path})${beta}\n`
indexItemLine(child) ==
  <<"-", SP, "[">> \o child.title \o <<"](">> \o child.path \o <<")">>
    \o (IF Has(child, "beta") /\ child.beta THEN <<SP, "**Beta**">> ELSE <<>>)
    \o <<NL>>

\* render.ts:412-420: the heading of a group marker
indexGroupHeading(child, i, headingLevel) ==
  (IF i > 1 THEN <<NL>> ELSE <<>>)
    \o Repeat("#", IF headingLevel < MaxHeadingLevel THEN headingLevel ELSE MaxHeadingLevel)
    \o <<SP>> \o Str(child, "title") \o <<NL, NL>>

\* render.ts:399-401: renderIndexContent calls renderIndexContentWithIndent
\* at heading level 2
IndexStart ==
  /\ pc[1] = "index"
  /\ stack = <<>>
  /\ stack' = <<IndexFrame(1, 2)>>
  /\ pc' = [pc EXCEPT ![1] = "walking"]
  /\ UNCHANGED <<inputTree, inputUrl, clock, stamp, markdown, result, heap, fetchVars>>

\* render.ts:421-431: the item line, a blank line and the recursive call
IndexCall ==
  /\ stack # <<>>
  /\ ~IndexFinished(Top)
  /\ IndexDescends(Top)
  /\ stack' = Append([stack EXCEPT ![Len(stack)].markdown =
                        @ \o indexItemLine(IndexChild(Top)) \o <<NL>>],
                     IndexFrame(IndexChild(Top).children, Top.headingLevel + 1))
  /\ UNCHANGED <<inputTree, inputUrl, clock, pc, stamp, markdown, result, heap, fetchVars>>

\* render.ts:412-425: a child rendered without a call, or skipped
IndexEmit ==
  /\ stack # <<>>
  /\ ~IndexFinished(Top)
  /\ ~IndexDescends(Top)
  /\ stack' = [stack EXCEPT ![Len(stack)] =
                 [Top EXCEPT !.i = @ + 1,
                             !.markdown =
                               @ \o (IF TypeOf(IndexChild(Top)) = "groupMarker"
                                     THEN indexGroupHeading(IndexChild(Top), Top.i,
                                                            Top.headingLevel)
                                     ELSE IF Truthy(IndexChild(Top), "path")
                                             /\ Truthy(IndexChild(Top), "title")
                                     THEN indexItemLine(IndexChild(Top))
                                     ELSE <<>>)]]
  /\ UNCHANGED <<inputTree, inputUrl, clock, pc, stamp, markdown, result, heap, fetchVars>>

\* render.ts:430-431, 436: the nested call returns and its text is appended
IndexReturn ==
  /\ Len(stack) > 1
  /\ IndexFinished(Top)
  /\ stack' = [SubSeq(stack, 1, Len(stack) - 1)
                 EXCEPT ![Len(stack) - 1] =
                   [@ EXCEPT !.markdown = @ \o Top.markdown, !.i = @ + 1]]
  /\ UNCHANGED <<inputTree, inputUrl, clock, pc, stamp, markdown, result, heap, fetchVars>>

\* the outermost call returns
IndexFinish ==
  /\ Len(stack) = 1
  /\ IndexFinished(Top)
  /\ result' = [result EXCEPT ![1] = Top.markdown]
  /\ stack' = <<>>
  /\ pc' = [pc EXCEPT ![1] = "returned"]
  /\ UNCHANGED <<inputTree, inputUrl, clock, stamp, markdown, heap, fetchVars>>

InitIndex ==
  /\ inputTree = [interfaceLanguages |-> [swift |-> <<[children |-> 1]>>]]
  /\ heap \in IndexHeaps
  /\ NoFetch
  /\ inputUrl = [origin |-> "https://test.com", segments |-> <<>>]
  /\ clock = 0
  /\ pc = [c \in Calls |-> "index"]
  /\ stamp = [c \in Calls |-> 0]
  /\ markdown = [c \in Calls |-> <<>>]
  /\ result = [c \in Calls |-> <<>>]
  /\ stack = <<>>

NextIndex == IndexStart \/ IndexCall \/ IndexEmit \/ IndexReturn \/ IndexFinish

SpecIndex == InitIndex /\ [][NextIndex]_vars


\* the line of a heading with n "#"
HashLine(n, text) == [i \in 1..n |-> "#"] \o <<SP>> \o text

\* what stands for level n of a tree of N levels before the levels below
\* it: the heading of the group marker, a blank line, the list item and,
\* when the item has children, a blank line
LevelHead(n, N) ==
  HashLine(Min({2 + n, 6}), <<"Group", SP, ToString(n)>>) \o <<NL, NL>>
    \o <<"-", SP, "[", "Item", SP, ToString(n), "](", "/documentation/level/", ToString(n), ")">>
    \o (IF n % 3 = 0 THEN <<SP, "**Beta**">> ELSE <<>>)
    \o <<NL>>
    \o (IF n < N THEN <<NL>> ELSE <<>>)

\* what stands for level n after the levels below it: a blank line and the
\* heading of the second group marker
LevelTail(n) ==
  <<NL>> \o HashLine(Min({2 + n, 6}), <<"Tail", SP, ToString(n)>>) \o <<NL, NL>>

\* the text of a tree of N levels below its root children
IndexText(N, siblings) ==
  JoinRange([k \in 1..(N + 1) |-> LevelHead(k - 1, N)], 1, N + 1)
    \o (IF siblings
        THEN JoinRange([k \in 1..(N + 1) |-> LevelTail(N + 1 - k)], 1, N + 1)
        ELSE <<>>)

\* C27: an index tree of N levels is rendered whole, whatever N, with no
\* sentinel and no call refused: the group marker n levels below the root
\* children as a heading of min(2 + n, 6) "#", the node with a path and a
\* title as a list item, with " **Beta**" when flagged, and its children
\* after a blank line, one heading level further.
C27_IndexTreeUnguarded ==
  /\ \A k \in 1..Len(stack) :
       stack[k].fn = "index" /\ stack[k].children = k /\ stack[k].headingLevel = k + 1
  /\ pc[1] = "returned" =>
       /\ result[1] = IndexText(Len(heap) - 1, Len(heap[1]) > 2)
       /\ Occurrences(BlockSentinel, result[1]) = 0
       /\ Occurrences(InlineSentinel, result[1]) = 0

\* the tree deeper than the limit of the Block Walker has been rendered,
\* with the item of its deepest level under a heading of six "#"
C27_Witness ==
  /\ pc[1] = "returned"
  /\ Len(heap) - 1 = MaxIndexDepth
  /\ MaxIndexDepth > MaxBlockDepth
  /\ Matches(<<NL, "#", "#", "#", "#", "#", "#", SP, "Group", SP, ToString(MaxIndexDepth), NL, NL,
               "-", SP, "[", "Item", SP, ToString(MaxIndexDepth), "](">>, result[1]) # {}


\* C28: every string renderFromJSON returns has at least 100 characters
\* once trimmed, so the check for insufficient content its callers make
\* never rejects what a rendering returned.
C28_ContentNeverInsufficient ==
  \A c \in Calls :
    pc[c] = "returned" =>
      /\ CharLength(Trim(result[c]), 1, Len(Trim(result[c]))) >= 100
      /\ ~InsufficientContent(result[c])

\* a call has returned for the document without any field: front matter
\* and footer alone
C28_Witness ==
  \E c \in Calls :
    /\ pc[c] = "returned"
    /\ DOMAIN inputTree = {}
    /\ inputUrl.segments = <<>>
    /\ IsSuffix(Footer, result[c])
    /\ Len(result[c]) = Len(generateFrontMatterFromJSON(inputTree, inputUrl, stamp[c]))
                          - 2 + Len(Footer)
    /\ ~InsufficientContent(result[c])


(***************************************************************************)
(* SearchResultParser.  The parser is a record of its fields; an element   *)
(* is a record of its tag name and the attributes the parser reads (class, *)
(* href, the class of its parent), a class being a string of class names   *)
(* and spaces; a text is a string.                                         *)
(***************************************************************************)
\* s.includes(part), false when s is undefined
Includes(r, field, part) == Has(r, field) /\ Matches(part, r[field]) # {}

\* the parser as constructed
NewParser ==
  [results |-> <<>>, currentResult |-> <<>>, currentBreadcrumbs |-> <<>>,
   currentTags |-> <<>>, isInResultTitle |-> FALSE, isInResultDescription |-> FALSE,
   isInBreadcrumb |-> FALSE, isInTag |-> FALSE]

\* a reset that keeps the breadcrumbs collected so far
resetCurrentResultKeeping(p) ==
  [p EXCEPT !.currentResult = <<>>, !.currentTags = <<>>,
            !.isInResultTitle = FALSE, !.isInResultDescription = FALSE,
            !.isInBreadcrumb = FALSE, !.isInTag = FALSE]

\* resetCurrentResult
resetCurrentResult(p) ==
  [p EXCEPT !.currentResult = <<>>, !.currentBreadcrumbs = <<>>, !.currentTags = <<>>,
            !.isInResultTitle = FALSE, !.isInResultDescription = FALSE,
            !.isInBreadcrumb = FALSE, !.isInTag = FALSE]

\* finalizeCurrentResult
finalizeCurrentResult(p) ==
  resetCurrentResult(
    IF Truthy(p.currentResult, "title") /\ Truthy(p.currentResult, "url")
    THEN [p EXCEPT !.results =
            Append(@, [title |-> p.currentResult.title,
                       url |-> p.currentResult.url,
                       description |-> OrEmpty(p.currentResult, "description"),
                       breadcrumbs |-> p.currentBreadcrumbs,
                       tags |-> p.currentTags,
                       type |-> IF Truthy(p.currentResult, "type")
                                THEN p.currentResult.type ELSE <<"unknown">>])]
    ELSE p)

\* element(element), its six statements in turn
parserElement(p, el) ==
  LET started ==
        IF el.tagName = "li" /\ Includes(el, "class", <<"search-result">>)
        THEN [finalizeCurrentResult(p) EXCEPT !.currentResult =
                [type |-> IF Includes(el, "class", <<"documentation">>)
                          THEN <<"documentation">>
                          ELSE IF Includes(el, "class", <<"general">>) THEN <<"general">>
                          ELSE <<"other">>]]
        ELSE p
      linked ==
        IF el.tagName = "a" /\ Includes(el, "class", <<"click-analytics-result">>)
        THEN [started EXCEPT
                !.currentResult =
                  IF Truthy(el, "href")
                  THEN [url |-> IF el.href[1] = "/"
                                THEN <<"https://developer.apple.com">> \o el.href
                                ELSE el.href] @@ @
                  ELSE @,
                !.isInResultTitle = TRUE]
        ELSE started
      described ==
        IF el.tagName = "p" /\ Includes(el, "class", <<"result-description">>)
        THEN [linked EXCEPT !.isInResultDescription = TRUE]
        ELSE linked
      crumbed ==
        IF el.tagName = "li" /\ Includes(el, "class", <<"breadcrumb-list-item">>)
        THEN [described EXCEPT !.isInBreadcrumb = TRUE]
        ELSE described
      tagged ==
        IF el.tagName = "span" /\ Includes(el, "parentClass", <<"result-tag">>)
        THEN [crumbed EXCEPT !.isInTag = TRUE]
        ELSE crumbed
  IN IF el.tagName = "li" /\ Includes(el, "class", <<"result-tag", SP, "language">>)
     THEN [tagged EXCEPT !.isInTag = TRUE]
     ELSE tagged

\* text(text)
parserText(p, chunk) ==
  LET content == Trim(chunk)
  IN IF content = <<>> THEN p
     ELSE IF p.isInResultTitle /\ Truthy(p.currentResult, "url")
     THEN [p EXCEPT !.currentResult = [title |-> content] @@ @, !.isInResultTitle = FALSE]
     ELSE IF p.isInResultDescription
     THEN [p EXCEPT !.currentResult = [description |-> content] @@ @,
                    !.isInResultDescription = FALSE]
     ELSE IF p.isInBreadcrumb
     THEN [p EXCEPT !.currentBreadcrumbs = Append(@, content), !.isInBreadcrumb = FALSE]
     ELSE IF p.isInTag
     THEN [p EXCEPT !.currentTags = Append(@, content), !.isInTag = FALSE]
     ELSE p

\* end()
parserEnd(p) == finalizeCurrentResult(p)


(***************************************************************************)
(* The parser fed by the rewriter: any sequence of at most MaxEvents       *)
(* element, text and end events.  response counts the events fed and the   *)
(* search-result starts and end() calls among them, and keeps the class of *)
(* the latest of these, "end" for an end(); the result under collection    *)
(* when k of them have happened is result k, and every href and text fed   *)
(* then names the type of that result and ends in k.                       *)
(***************************************************************************)
MaxEvents == 9

ResultNo == response.started

\* the type of the result under collection: results collected before the
\* first search-result element, or after an end(), have no element
ResultType ==
  IF response.class \in {<<>>, <<"end">>} THEN "unknown"
  ELSE IF Matches(<<"documentation">>, response.class) # {} THEN "documentation"
  ELSE IF Matches(<<"general">>, response.class) # {} THEN "general"
  ELSE "other"

ResultStarts ==
  { [tagName |-> "li", class |-> <<"search-result", SP, "documentation">>],
    [tagName |-> "li", class |-> <<"search-result", SP, "general">>],
    [tagName |-> "li", class |-> <<"search-result">>],
    [tagName |-> "li", class |-> <<"search-result", SP, "breadcrumb-list-item">>] }

InnerElements(k) ==
  { [tagName |-> "a", class |-> <<"click-analytics-result">>,
     href |-> <<"/", "documentation", "/", ToString(k)>>],
    [tagName |-> "a", class |-> <<"click-analytics-result">>,
     href |-> <<"https://example.com/", ToString(k)>>],
    [tagName |-> "a", class |-> <<"click-analytics-result">>],
    [tagName |-> "p", class |-> <<"result-description">>],
    [tagName |-> "li", class |-> <<"breadcrumb-list-item">>],
    [tagName |-> "li", class |-> <<"result-tag", SP, "language">>],
    [tagName |-> "span", parentClass |-> <<"result-tag">>] }

TextChunks(k) == { <<SP, "text", ResultType, ToString(k), NL>>, <<SP, NL>> }

\* the rewriter calls element() on a matched element
ParserElement ==
  /\ response.events < MaxEvents
  /\ \E el \in ResultStarts \cup InnerElements(ResultNo) :
       /\ parser' = parserElement(parser, el)
       /\ response' = [response EXCEPT
                         !.events = @ + 1,
                         !.started = IF el \in ResultStarts THEN @ + 1 ELSE @,
                         !.class = IF el \in ResultStarts THEN el.class ELSE @,
                         !.last = IF el \in ResultStarts THEN "start" ELSE "inner"]
  /\ UNCHANGED <<inputTree, inputUrl, clock, pc, stamp, markdown, result, stack, heap,
                 call, appleUrl, requests, fetched, toolResult, structured>>

\* the rewriter calls text() on a chunk of text
ParserText ==
  /\ response.events < MaxEvents
  /\ \E chunk \in TextChunks(ResultNo) : parser' = parserText(parser, chunk)
  /\ response' = [response EXCEPT !.events = @ + 1, !.last = "inner"]
  /\ UNCHANGED <<inputTree, inputUrl, clock, pc, stamp, markdown, result, stack, heap,
                 call, appleUrl, requests, fetched, toolResult, structured>>

\* end() is called
ParserEnd ==
  /\ response.events < MaxEvents
  /\ parser' = parserEnd(parser)
  /\ response' = [response EXCEPT !.events = @ + 1, !.started = @ + 1,
                                  !.class = <<"end">>, !.last = "end"]
  /\ UNCHANGED <<inputTree, inputUrl, clock, pc, stamp, markdown, result, stack, heap,
                 call, appleUrl, requests, fetched, toolResult, structured>>

InitParser ==
  /\ inputTree = <<>>
  /\ inputUrl = [origin |-> "https://test.com", segments |-> <<>>]
  /\ clock = 0
  /\ pc = [c \in Calls |-> "frontMatter"]
  /\ stamp = [c \in Calls |-> 0]
  /\ markdown = [c \in Calls |-> <<>>]
  /\ result = [c \in Calls |-> <<>>]
  /\ stack = <<>>
  /\ heap = <<>>
  /\ call = [via |-> "none"]
  /\ appleUrl = <<>>
  /\ requests = <<>>
  /\ response = [kind |-> "stream", events |-> 0, started |-> 0, class |-> <<>>,
                 last |-> "none"]
  /\ fetched = [state |-> "none"]
  /\ toolResult = <<>>
  /\ structured = <<>>
  /\ parser = NewParser

NextParser ==
  \/ ParserElement
  \/ ParserText
  \/ ParserEnd

SpecParser == InitParser /\ [][NextParser]_vars

\* the number a fed string ends in
NoOf(s) == CHOOSE k \in 0..MaxEvents : ToString(k) = s[Len(s)]

\* nothing is pending: no field of a result, no breadcrumb, no tag
NothingPending(p, fields) ==
  /\ DOMAIN p.currentResult \subseteq fields
  /\ p.currentBreadcrumbs = <<>>
  /\ p.currentTags = <<>>
  /\ ~p.isInResultTitle
  /\ ~p.isInResultDescription

\* C29: after any sequence of element, text and end events every result has
\* a non-empty title and a non-empty url; all that a result holds (url,
\* description, breadcrumbs, tags, type) was collected between the start of
\* its own search-result element and the next start or end(); the results
\* stand in the order their elements started; and right after a
\* search-result start or an end() nothing of the former result is pending
\* and no flag is set but one that the starting element sets itself.
C29_ResultsSeparate ==
  LET results == parser.results
  IN /\ \A i \in 1..Len(results) :
          LET r == results[i]
              k == NoOf(r.title)
          IN /\ r.title # <<>> /\ r.url # <<>>
             /\ r.title = <<"text", r.type[1], ToString(k)>>
             /\ NoOf(r.url) = k
             /\ r.description \in {<<>>, r.title}
             /\ \A b \in 1..Len(r.breadcrumbs) : r.breadcrumbs[b] = r.title
             /\ \A t \in 1..Len(r.tags) : r.tags[t] = r.title
             /\ Len(r.type) = 1
             /\ \A j \in 1..(i - 1) : NoOf(results[j].title) < k
     /\ response.last = "end" =>
          NothingPending(parser, {}) /\ ~parser.isInBreadcrumb /\ ~parser.isInTag
     /\ response.last = "start" =>
          /\ NothingPending(parser, {"type"})
          /\ parser.currentResult.type = <<ResultType>>
          /\ ~parser.isInTag
          /\ parser.isInBreadcrumb
               = (Matches(<<"breadcrumb-list-item">>, response.class) # {})

\* two results are kept, the first with a description, a breadcrumb or a
\* tag, the second with none, and a pending result without title was
\* discarded
C29_Witness ==
  /\ Len(parser.results) = 2
  /\ parser.results[1].breadcrumbs # <<>>
  /\ parser.results[2].breadcrumbs = <<>>
  /\ NoOf(parser.results[2].title) > NoOf(parser.results[1].title) + 1


(***************************************************************************)
(* The handlers of the MCP server: the documentation resource, the search  *)
(* tool and the fetch tool.  A path of the resource arrives percent        *)
(* encoded, "%2F" and "%20" being the encoded slash and space and a "%"    *)
(* that no two hexadecimal digits follow being malformed; a query can hold *)
(* a lone surrogate, which cannot be encoded.                              *)
(***************************************************************************)
\* decodeURIComponent throws URIError("URI malformed")
MalformedPath(path) == \E i \in 1..Len(path) : path[i] = "%"

\* decodeURIComponent(path)
decodeURIComponent(path) ==
  [i \in 1..Len(path) |-> CASE path[i] = "%2F" -> "/"
                            [] path[i] = "%20" -> SP
                            [] OTHER -> path[i]]

\* encodeURIComponent throws URIError("URI malformed")
MalformedQuery(query) == \E i \in 1..Len(query) : query[i] = "\\uD800"

\* encodeURIComponent(query)
encodeURIComponent(query) ==
  [i \in 1..Len(query) |-> CASE query[i] = "/" -> "%2F"
                             [] query[i] = SP -> "%20"
                             [] OTHER -> query[i]]

\* mcp.ts:47-57: the text the resource answers with when something was thrown
ResourceErrorText(message) == <<"Error fetching documentation: ">> \o message

\* mcp.ts:23-31: the handler of the resource runs up to the request that
\* fetchJSONData sends, or to the catch when the path cannot be decoded
ResourceStart ==
  /\ call.via = "resource"
  /\ fetched.state = "none"
  /\ toolResult = <<>>
  /\ IF MalformedPath(call.path)
     THEN /\ toolResult' = ResourceErrorText(<<"URI malformed">>)
          /\ structured' = [mimeType |-> "text/plain"]
          /\ UNCHANGED <<appleUrl, requests, fetched>>
     ELSE LET decodedPath == decodeURIComponent(call.path)
          IN /\ appleUrl' = generateAppleDocUrl(normalizeDocumentationPath(decodedPath))
             /\ \E agent \in 1..UserAgentCount :
                  requests' = Append(requests,
                                     UpstreamRequest(<<"/", "documentation", "/">>
                                                       \o decodedPath, agent))
             /\ fetched' = [state |-> "pending"]
             /\ UNCHANGED <<toolResult, structured>>
  /\ UNCHANGED <<inputTree, inputUrl, clock, pc, stamp, markdown, result, stack, heap,
                 call, response, parser>>

\* mcp.ts:31-58: fetchJSONData has settled; the handler renders what it
\* returned and answers with the markdown, or answers with the error
ResourceAnswer ==
  /\ call.via = "resource"
  /\ fetched.state \in {"fulfilled", "rejected"}
  /\ toolResult = <<>>
  /\ IF fetched.state = "rejected"
     THEN /\ toolResult' = ResourceErrorText(fetched.message)
          /\ structured' = [mimeType |-> "text/plain"]
          /\ UNCHANGED <<inputTree, inputUrl, pc, result>>
     ELSE LET sourceUrl == ParseUrl(appleUrl)
              text == MarkdownAfter(Len(Steps), fetched.data, sourceUrl, clock)
              rendered == renderFromJSON(fetched.data, sourceUrl, clock)
          IN /\ inputTree' = fetched.data
             /\ inputUrl' = sourceUrl
             /\ IF Throws(text)
                THEN /\ pc' = [pc EXCEPT ![1] = "threw"]
                     /\ result' = result
                     /\ toolResult' = ResourceErrorText(<<"TypeError">>)
                     /\ structured' = [mimeType |-> "text/plain"]
                ELSE /\ pc' = [pc EXCEPT ![1] = "returned"]
                     /\ result' = [result EXCEPT ![1] = rendered]
                     /\ toolResult' =
                          IF InsufficientContent(rendered)
                          THEN ResourceErrorText(<<"Insufficient content in documentation">>)
                          ELSE rendered
                     /\ structured' =
                          [mimeType |-> IF InsufficientContent(rendered)
                                        THEN "text/plain" ELSE "text/markdown"]
  /\ UNCHANGED <<clock, stamp, markdown, stack, heap, call, appleUrl, requests, response,
                 fetched, parser>>

\* part_002:136-144: the request of a search
SearchRequest(query) ==
  [url |-> <<"https://developer.apple.com/search/?q=">> \o encodeURIComponent(query),
   headers |-> [UserAgent |-> "Mozilla/5.0"]]

\* mcp.ts:97-99 and part_002:135-144: the handler of the search tool calls
\* searchAppleDeveloperDocs, which runs up to the request it sends, or throws
\* when the query cannot be encoded
SearchStart ==
  /\ call.via = "search"
  /\ fetched.state = "none"
  /\ IF MalformedQuery(call.query)
     THEN /\ fetched' = [state |-> "rejected", message |-> <<"URI malformed">>]
          /\ UNCHANGED requests
     ELSE /\ requests' = Append(requests, SearchRequest(call.query))
          /\ fetched' = [state |-> "searching"]
  /\ UNCHANGED <<inputTree, inputUrl, clock, pc, stamp, markdown, result, stack, heap,
                 call, appleUrl, response, toolResult, structured, parser>>

\* the events the rewriter makes of a page with the given results: for each
\* the search-result element, its link and title, and then its description,
\* breadcrumb and tag if it has them
ResultEvents(r) ==
  <<[element |-> [tagName |-> "li", class |-> <<"search-result", SP>> \o r.type]],
     [element |-> [tagName |-> "a", class |-> <<"click-analytics-result">>,
                   href |-> r.href]],
     [chunk |-> <<NL, SP>> \o r.title \o <<NL>>]>>
    \o (IF r.description = <<>> THEN <<>>
        ELSE <<[element |-> [tagName |-> "p", class |-> <<"result-description">>]],
               [chunk |-> r.description]>>)
    \o (IF r.breadcrumb = <<>> THEN <<>>
        ELSE <<[element |-> [tagName |-> "li", class |-> <<"breadcrumb-list-item">>]],
               [chunk |-> r.breadcrumb]>>)
    \o (IF r.tag = <<>> THEN <<>>
        ELSE <<[element |-> [tagName |-> "li", class |-> <<"result-tag", SP, "language">>]],
               [element |-> [tagName |-> "span", parentClass |-> <<"result-tag">>]],
               [chunk |-> r.tag]>>)

ViewResult ==
  [type |-> <<"documentation">>, href |-> <<"/", "documentation", "/", "swiftui", "/", "view">>,
   title |-> <<"View">>, description |-> <<"A", SP, "view.">>,
   breadcrumb |-> <<"SwiftUI">>, tag |-> <<"Swift">>]

VideoResult ==
  [type |-> <<"general">>, href |-> <<"https://developer.apple.com/videos/">>,
   title |-> <<"Videos">>, description |-> <<>>, breadcrumb |-> <<>>, tag |-> <<>>]

\* the answers of the upstream to a search: a page without results, with
\* one or with two, a status that is not OK, or no answer at all
SearchResponses ==
  { [kind |-> "ok", events |-> <<>>],
    [kind |-> "ok", events |-> ResultEvents(ViewResult)],
    [kind |-> "ok", events |-> ResultEvents(VideoResult) \o ResultEvents(ViewResult)],
    [kind |-> "notOk", status |-> "500"],
    [kind |-> "networkError", message |-> "fetch failed"] }

\* the upstream answers the search, or the network fails
SearchRespond ==
  /\ fetched.state = "searching"
  /\ response.kind = "none"
  /\ response' \in SearchResponses
  /\ UNCHANGED <<inputTree, inputUrl, clock, pc, stamp, markdown, result, stack, heap,
                 call, appleUrl, requests, fetched, toolResult, structured, parser>>

\* part_002:152-165: the rewriter feeds the events of the page to the parser,
\* and end() is called
RECURSIVE Rewritten(_, _)
Rewritten(p, events) ==
  IF events = <<>> THEN parserEnd(p)
  ELSE Rewritten(IF Has(events[1], "element") THEN parserElement(p, events[1].element)
                 ELSE parserText(p, events[1].chunk),
                 Tail(events))

\* part_002:146-180: the await of fetch ends, and searchAppleDeveloperDocs
\* returns the results of the page, or none when anything was thrown
SearchSettle ==
  /\ fetched.state = "searching"
  /\ response.kind # "none"
  /\ IF response.kind = "ok"
     THEN /\ parser' = Rewritten(NewParser, response.events)
          /\ fetched' = [state |-> "fulfilled",
                         data |-> [query |-> call.query, results |-> parser'.results]]
     ELSE /\ parser' = parser
          /\ fetched' = [state |-> "fulfilled",
                         data |-> [query |-> call.query, results |-> <<>>]]
  /\ UNCHANGED <<inputTree, inputUrl, clock, pc, stamp, markdown, result, stack, heap,
                 call, appleUrl, requests, response, toolResult, structured>>

\* mcp.ts:126-133: the readable summary of the results
ResultText(query, results) ==
  <<"Found ", ToString(Len(results)), " result(s) for \"">> \o query \o <<"\":", NL, NL>>
    \o JoinWith([i \in 1..Len(results) |->
                   <<ToString(i), ". ">> \o results[i].title \o <<NL, "   ">>
                     \o results[i].url \o <<NL, "   ">>
                     \o (IF results[i].description # <<>> THEN results[i].description
                         ELSE <<"No description">>)],
                <<NL, NL>>)

\* mcp.ts:99-161: searchAppleDeveloperDocs has settled; the handler answers
\* with the results and their summary, or with the error
SearchAnswer ==
  /\ call.via = "search"
  /\ fetched.state \in {"fulfilled", "rejected"}
  /\ toolResult = <<>>
  /\ IF fetched.state = "rejected"
     THEN /\ toolResult' = <<"Error searching Apple Developer documentation: ">>
                             \o fetched.message
          /\ structured' = [query |-> call.query, results |-> <<>>]
     ELSE /\ structured' = [query |-> fetched.data.query, results |-> fetched.data.results]
          /\ toolResult' =
               IF Len(fetched.data.results) = 0
               THEN <<"No results found for \"">> \o call.query \o <<"\"">>
               ELSE ResultText(call.query, fetched.data.results)
  /\ UNCHANGED <<inputTree, inputUrl, clock, pc, stamp, markdown, result, stack, heap,
                 call, appleUrl, requests, response, fetched, parser>>

ResourcePaths ==
  { Spell("swiftui"),
    Spell("swiftui") \o <<"%2F">> \o Spell("view"),
    <<"documentation", "%2F">> \o Spell("swiftui") \o <<"/">> \o Spell("view"),
    <<"%20">> \o Spell("swiftui"),
    <<"%">> \o Spell("swiftui"),
    Spell("swiftui") \o <<"%2F", "%">> }

Queries == { <<"swiftui">>, <<"swift", SP, "ui">>, <<>>, <<"swift", "\\uD800">> }

McpCalls ==
  {[via |-> "resource", path |-> path] : path \in ResourcePaths}
    \cup {[via |-> "tool", path |-> path] : path \in Pages \cup {<<>>}}
    \cup {[via |-> "search", query |-> query] : query \in Queries}

InitMcp ==
  /\ inputTree = <<>>
  /\ inputUrl = [origin |-> "https://test.com", segments |-> <<>>]
  /\ clock = 0
  /\ pc = [c \in Calls |-> "frontMatter"]
  /\ stamp = [c \in Calls |-> 0]
  /\ markdown = [c \in Calls |-> <<>>]
  /\ result = [c \in Calls |-> <<>>]
  /\ stack = <<>>
  /\ heap = <<>>
  /\ call \in McpCalls
  /\ appleUrl = <<>>
  /\ requests = <<>>
  /\ response = [kind |-> "none"]
  /\ fetched = [state |-> "none"]
  /\ toolResult = <<>>
  /\ structured = <<>>
  /\ parser = <<>>

NextMcp ==
  \/ ResourceStart
  \/ ToolStart
  \/ SearchStart
  \/ Respond
  \/ SearchRespond
  \/ FetchSettle
  \/ SearchSettle
  \/ ResourceAnswer
  \/ ToolAnswer
  \/ SearchAnswer

SpecMcp == InitMcp /\ [][NextMcp]_vars

\* the handling of the call failed: its path or query could not be decoded
\* or encoded, the upstream gave no page, the page could not be rendered,
\* or what was rendered failed the content check
Failed ==
  \/ call.via = "resource" /\ MalformedPath(call.path)
  \/ call.via = "search" /\ MalformedQuery(call.query)
  \/ response.kind \in {"notOk", "networkError"}
  \/ response.kind = "ok" /\ call.via # "search" /\ ~Has(response, "body")
  \/ pc[1] = "threw"
  \/ pc[1] = "returned" /\ InsufficientContent(result[1])

\* the text opens with an error message
StartsWithError(text) ==
  /\ text # <<>>
  /\ text[1] \in {"Error fetching documentation: ", "Error fetching documentation for \"",
                  "Error searching Apple Developer documentation: "}

\* C30: when the handling of a call to the documentation resource, the
\* fetch tool or the search tool fails, the handler answers with a text
\* that starts with an error message, and the search tool with no results
\* and the query it was given.
C30_FailureAnswersError ==
  toolResult # <<>> /\ Failed =>
    /\ StartsWithError(toolResult)
    /\ call.via = "search" => structured = [query |-> call.query, results |-> <<>>]

\* what holds of the handlers: a failed resource or fetch call, and a search
\* whose query cannot be encoded, is answered with an error message; a
\* search that the upstream fails is answered as one without results
FailureAnswered ==
  toolResult # <<>> /\ Failed =>
    /\ call.via = "search" => structured = [query |-> call.query, results |-> <<>>]
    /\ IF call.via = "search" /\ ~MalformedQuery(call.query)
       THEN toolResult = <<"No results found for \"">> \o call.query \o <<"\"">>
       ELSE StartsWithError(toolResult)
    /\ call.via = "resource" => structured = [mimeType |-> "text/plain"]

\* a search is answered with the results of the page, in the order of the
\* page, and with a summary of them
SearchAnswered ==
  call.via = "search" /\ toolResult # <<>> /\ response.kind = "ok" =>
    /\ structured.query = call.query
    /\ Len(structured.results) \in 0..2
    /\ Len(structured.results) = 2 =>
         /\ structured.results[1].title = <<"Videos">>
         /\ structured.results[1].type = <<"general">>
         /\ structured.results[2].url
              = <<"https://developer.apple.com", "/", "documentation", "/", "swiftui", "/",
                  "view">>
         /\ structured.results[2].breadcrumbs = <<<<"SwiftUI">>>>
         /\ structured.results[2].tags = <<<<"Swift">>>>
         /\ Matches(<<"No description">>, toolResult) # {}

====
